---- MODULE Spec2Model ----
(***************************************************************************)
(* A model of the streaming JSON scanner (package json, type Scanner):     *)
(* the byte-driven state machine, the buffer refill (fill), the string     *)
(* cooker (cookedData) and the accessors, driven by a byte source that     *)
(* delivers the input in reads of arbitrary size.                          *)
(*                                                                         *)
(* Bytes are the integers 0..255.  Offsets are 0-based as in the source;   *)
(* At(q, i) reads the byte at 0-based offset i of a sequence.              *)
(***************************************************************************)
EXTENDS Integers, Sequences, FiniteSets, TLC

(* input: the bytes the source will deliver; doc: how the input was put     *)
(* together (pre \o text \o post, the token under test being text);         *)
(* s: the Scanner; ref: a Scanner fed the same input in one read;           *)
(* ret, refret: what the last Scan returned; out, refout: what the last     *)
(* Name or Value returned; last: the last call made; nscan: Scan calls      *)
(* made; nfalse: how many of them returned false; panicked: a call          *)
(* panicked (the program is gone); level: the nesting level the caller last *)
(* asked for; mark: how many input bytes had been scanned when it asked.    *)
VARIABLES input, doc, s, ref, ret, refret, out, refout, last, nscan, nfalse, panicked,
          level, mark, writer, calls, seen

vars ==
  <<input, doc, s, ref, ret, refret, out, refout, last, nscan, nfalse, panicked,
    level, mark, writer, calls, seen>>

-----------------------------------------------------------------------------
(* Byte literals used by the state functions.                              *)
ch ==
  [ht |-> 9, nl |-> 10, ff |-> 12, cr |-> 13, bs |-> 8, sp |-> 32,
   quote |-> 34, plus |-> 43, comma |-> 44, minus |-> 45, dot |-> 46,
   slash |-> 47, d0 |-> 48, d1 |-> 49, d2 |-> 50, d9 |-> 57, colon |-> 58,
   A |-> 65, E |-> 69, F |-> 70, lbrack |-> 91, backslash |-> 92,
   rbrack |-> 93, a |-> 97, b |-> 98, e |-> 101, f |-> 102, l |-> 108,
   n |-> 110, r |-> 114, s |-> 115, t |-> 116, u |-> 117, x |-> 120,
   lbrace |-> 123, rbrace |-> 125]

RuneSelf == 128
ReplacementChar == 65533

Null == 0
Bool == 1
String == 2
Number == 3
Array == 4
Object == 5
End == 6

nameData == 0
valueData == 1

minRead == 512
initCap == 1024

Min(a, b) == IF a < b THEN a ELSE b

At(q, i) == q[i + 1]

(* q[lo:hi] of the source: bytes at 0-based offsets lo .. hi-1 *)
Slice(q, lo, hi) == SubSeq(q, lo + 1, hi)

-----------------------------------------------------------------------------
(* Errors.  s.err is nil, io.EOF, io.ErrUnexpectedEOF, an error returned   *)
(* by the source, or a *SyntaxError{Pos, b, expect}.                       *)
ErrOf(type, p, b, expect) == [type |-> type, Pos |-> p, b |-> b, expect |-> expect]

nil == ErrOf("nil", 0, 0, "")
EOF == ErrOf("EOF", 0, 0, "")
ErrUnexpectedEOF == ErrOf("ErrUnexpectedEOF", 0, 0, "")
ErrSource == ErrOf("ErrSource", 0, 0, "")

SyntaxError(p, b, expect) == ErrOf("SyntaxError", p, b, expect)

expectWhitespace == "whitespace"
expectValue == "start of JSON value"
expectArrayCommaOrClose == "',' or ']' in array"
expectObjectKeyOrClose == "key or '}' in object"
expectObjectColon == "':' in object member"
expectObjectCommaOrClose == "',' or '}' in object"
expectObjectKey == "string key in object"
expectNu == "'u' in null"
expectNul == "'l' in null"
expectNull == "'l' in null"
expectTr == "'r' in true"
expectTru == "'u' in true"
expectTrue == "'e' in true"
expectFa == "'a' in false"
expectFal == "'l' in false"
expectFals == "'s' in false"
expectFalse == "'e' in false"
expectStringNotControl == "non-control byte"
expectStringEscape == "string escape"
expectStringUnicodeEscape1 == "hex digit following \\u"
expectStringUnicodeEscape2 == "hex digit following \\u"
expectStringUnicodeEscape3 == "hex digit following \\u"
expectStringUnicodeEscape4 == "hex digit following \\u"
expectNumberNeg == "digit after '-'"
expectNumberFrac == "digit after '.'"
expectNumberExp == "exponent"
expectNumberExpDigit == "exponent digits"

(* Error() of the error value: the message of a SyntaxError leaves Pos out *)
ErrorText(e) == [type |-> e.type, b |-> e.b, expect |-> e.expect]

-----------------------------------------------------------------------------
isWhiteSpace(b) == b = ch.sp \/ b = ch.nl \/ b = ch.cr \/ b = ch.ht

isHexDigit(b) ==
  \/ ch.d0 <= b /\ b <= ch.d9
  \/ ch.a <= b /\ b <= ch.f
  \/ ch.A <= b /\ b <= ch.F

isDecimalDigit(b) == ch.d0 <= b /\ b <= ch.d9

(* A state function returns the next state function (st = "nil" for none)  *)
(* together with the scanner as it left it.                                *)
To(sc, st) == [s |-> sc, st |-> st]

top(sc, f) == [sc EXCEPT !.states[Len(sc.states)] = f]

push(sc, f) == [sc EXCEPT !.states = Append(@, f)]

pop(sc) == [sc EXCEPT !.states = SubSeq(@, 1, Len(@) - 1)]

syntaxError(sc, b, expect) ==
  To([sc EXCEPT !.err = SyntaxError(sc.pos, b, expect)], "nil")

(* variant: the cursor is left behind the byte that ended the number *)
finishNumberKeepsCursor(sc) ==
  To([sc EXCEPT !.kind = Number,
                !.data[valueData].end = sc.pos], "nil")

finishNumber(sc) ==
  To([sc EXCEPT !.kind = Number,
                !.data[valueData].end = sc.pos,
                !.pos = sc.pos - 1], "nil")

OpenValue(sc) ==
  [sc EXCEPT !.data[valueData].pos = sc.pos, !.data[valueData].end = -1]

stateValue(sc, b) ==
  IF isWhiteSpace(b) THEN To(sc, "stateValue")
  ELSE IF b = ch.quote THEN
    To([sc EXCEPT !.isKey = FALSE, !.cook = FALSE,
                  !.data[valueData].pos = sc.pos + 1,
                  !.data[valueData].end = -1], "stateString")
  ELSE IF b = ch.minus THEN To(OpenValue(sc), "stateNumberNeg")
  ELSE IF b = ch.d0 THEN To(OpenValue(sc), "stateNumberDotOrExp")
  ELSE IF ch.d1 <= b /\ b <= ch.d9 THEN To(OpenValue(sc), "stateNumberDigits")
  ELSE IF b = ch.t THEN To(sc, "stateTr")
  ELSE IF b = ch.f THEN To(sc, "stateFa")
  ELSE IF b = ch.n THEN To(sc, "stateNu")
  ELSE IF b = ch.lbrack THEN
    To([push(sc, "stateArrayElementOrClose") EXCEPT !.kind = Array], "nil")
  ELSE IF b = ch.lbrace THEN
    To([push(sc, "stateObjectKeyOrClose") EXCEPT !.kind = Object], "nil")
  ELSE syntaxError(sc, b, expectValue)

stateStart(sc, b) == stateValue(top(sc, "stateEnd"), b)

(* variant: whitespace behind the value does not make end-of-input good *)
stateEndNoEOF(sc, b) ==
  IF isWhiteSpace(b) THEN To(sc, "stateEnd")
  ELSE syntaxError(sc, b, expectWhitespace)

(* variant: bytes behind the value are passed over *)
stateEndLenient(sc, b) == To([sc EXCEPT !.eofOK = TRUE], "stateEnd")

stateEnd(sc, b) ==
  IF isWhiteSpace(b) THEN To([sc EXCEPT !.eofOK = TRUE], "stateEnd")
  ELSE syntaxError(sc, b, expectWhitespace)

(* stateEnd in multi-document mode: behind a complete top-level value a    *)
(* byte that is not whitespace starts the next top-level value             *)
stateEndMultiple(sc, b) ==
  IF isWhiteSpace(b) THEN stateEnd(sc, b)
  ELSE stateValue([sc EXCEPT !.eofOK = FALSE], b)

stateArrayElementOrClose(sc, b) ==
  IF isWhiteSpace(b) THEN To(sc, "stateArrayElementOrClose")
  ELSE IF b = ch.rbrack THEN To([pop(sc) EXCEPT !.kind = End], "nil")
  ELSE stateValue(top(sc, "stateArrayCommaOrClose"), b)

(* variant: a comma may be followed by the closing bracket *)
stateArrayCommaOrCloseTrailing(sc, b) ==
  IF isWhiteSpace(b) THEN To(sc, "stateArrayCommaOrClose")
  ELSE IF b = ch.comma THEN To(sc, "stateArrayElementOrClose")
  ELSE IF b = ch.rbrack THEN To([pop(sc) EXCEPT !.kind = End], "nil")
  ELSE syntaxError(sc, b, expectArrayCommaOrClose)

stateArrayCommaOrClose(sc, b) ==
  IF isWhiteSpace(b) THEN To(sc, "stateArrayCommaOrClose")
  ELSE IF b = ch.comma THEN To(sc, "stateValue")
  ELSE IF b = ch.rbrack THEN To([pop(sc) EXCEPT !.kind = End], "nil")
  ELSE syntaxError(sc, b, expectArrayCommaOrClose)

OpenName(sc) ==
  [sc EXCEPT !.cook = FALSE, !.isKey = TRUE,
             !.data[nameData].pos = sc.pos + 1,
             !.data[nameData].end = -1]

stateObjectKeyOrClose(sc, b) ==
  IF isWhiteSpace(b) THEN To(sc, "stateObjectKeyOrClose")
  ELSE IF b = ch.rbrace THEN To([pop(sc) EXCEPT !.kind = End], "nil")
  ELSE IF b = ch.quote THEN
    To(OpenName(top(sc, "stateObjectCommaOrClose")), "stateString")
  ELSE syntaxError(sc, b, expectObjectKeyOrClose)

stateObjectColon(sc, b) ==
  IF isWhiteSpace(b) THEN To(sc, "stateObjectColon")
  ELSE IF b = ch.colon THEN To(sc, "stateValue")
  ELSE syntaxError(sc, b, expectObjectColon)

(* variant: the closing brace leaves the object on the stack *)
stateObjectCommaOrCloseNoPop(sc, b) ==
  IF isWhiteSpace(b) THEN To(sc, "stateObjectCommaOrClose")
  ELSE IF b = ch.comma THEN To(sc, "stateObjectKey")
  ELSE IF b = ch.rbrace THEN To([sc EXCEPT !.kind = End], "nil")
  ELSE syntaxError(sc, b, expectObjectCommaOrClose)

stateObjectCommaOrClose(sc, b) ==
  IF isWhiteSpace(b) THEN To(sc, "stateObjectCommaOrClose")
  ELSE IF b = ch.comma THEN To(sc, "stateObjectKey")
  ELSE IF b = ch.rbrace THEN To([pop(sc) EXCEPT !.kind = End], "nil")
  ELSE syntaxError(sc, b, expectObjectCommaOrClose)

stateObjectKey(sc, b) ==
  IF isWhiteSpace(b) THEN To(sc, "stateObjectKey")
  ELSE IF b = ch.quote THEN To(OpenName(sc), "stateString")
  ELSE syntaxError(sc, b, expectObjectKey)

stateNu(sc, b) ==
  IF b = ch.u THEN To(sc, "stateNul") ELSE syntaxError(sc, b, expectNu)

stateNul(sc, b) ==
  IF b = ch.l THEN To(sc, "stateNull") ELSE syntaxError(sc, b, expectNul)

stateNull(sc, b) ==
  IF b = ch.l THEN To([sc EXCEPT !.kind = Null], "nil")
  ELSE syntaxError(sc, b, expectNull)

stateTr(sc, b) ==
  IF b = ch.r THEN To(sc, "stateTru") ELSE syntaxError(sc, b, expectTr)

stateTru(sc, b) ==
  IF b = ch.u THEN To(sc, "stateTrue") ELSE syntaxError(sc, b, expectTru)

stateTrue(sc, b) ==
  IF b = ch.e THEN To([sc EXCEPT !.kind = Bool, !.boolValue = TRUE], "nil")
  ELSE syntaxError(sc, b, expectTrue)

stateFa(sc, b) ==
  IF b = ch.a THEN To(sc, "stateFal") ELSE syntaxError(sc, b, expectFa)

stateFal(sc, b) ==
  IF b = ch.l THEN To(sc, "stateFals") ELSE syntaxError(sc, b, expectFal)

stateFals(sc, b) ==
  IF b = ch.s THEN To(sc, "stateFalse") ELSE syntaxError(sc, b, expectFals)

stateFalse(sc, b) ==
  IF b = ch.e THEN To([sc EXCEPT !.kind = Bool, !.boolValue = FALSE], "nil")
  ELSE syntaxError(sc, b, expectFalse)

stateString(sc, b) ==
  IF b = ch.quote THEN
    IF sc.isKey
    THEN To([sc EXCEPT !.data[nameData].end = sc.pos,
                       !.data[nameData].cook = sc.cook], "stateObjectColon")
    ELSE To([sc EXCEPT !.data[valueData].end = sc.pos,
                       !.data[valueData].cook = sc.cook,
                       !.kind = String], "nil")
  ELSE IF b = ch.backslash THEN To([sc EXCEPT !.cook = TRUE], "stateStringEscape")
  ELSE IF b < ch.sp THEN syntaxError(sc, b, expectStringNotControl)
  ELSE IF b < RuneSelf THEN To(sc, "stateString")
  ELSE To([sc EXCEPT !.cook = TRUE], "stateString")

stateStringEscape(sc, b) ==
  IF b \in {ch.quote, ch.backslash, ch.b, ch.f, ch.n, ch.r, ch.t, ch.slash}
  THEN To(sc, "stateString")
  ELSE IF b = ch.u THEN To(sc, "stateStringUnicodeEscape1")
  ELSE syntaxError(sc, b, expectStringEscape)

stateStringUnicodeEscape1(sc, b) ==
  IF isHexDigit(b) THEN To(sc, "stateStringUnicodeEscape2")
  ELSE syntaxError(sc, b, expectStringUnicodeEscape1)

stateStringUnicodeEscape2(sc, b) ==
  IF isHexDigit(b) THEN To(sc, "stateStringUnicodeEscape3")
  ELSE syntaxError(sc, b, expectStringUnicodeEscape2)

stateStringUnicodeEscape3(sc, b) ==
  IF isHexDigit(b) THEN To(sc, "stateStringUnicodeEscape4")
  ELSE syntaxError(sc, b, expectStringUnicodeEscape3)

stateStringUnicodeEscape4(sc, b) ==
  IF isHexDigit(b) THEN To(sc, "stateString")
  ELSE syntaxError(sc, b, expectStringUnicodeEscape4)

stateNumberNeg(sc, b) ==
  IF b = ch.d0 THEN To(sc, "stateNumberDotOrExp")
  ELSE IF ch.d1 <= b /\ b <= ch.d9 THEN To(sc, "stateNumberDigits")
  ELSE syntaxError(sc, b, expectNumberNeg)

(* variant: digits may follow a leading zero *)
stateNumberDotOrExpDigits(sc, b) ==
  IF isDecimalDigit(b) THEN To(sc, "stateNumberDigits")
  ELSE IF b = ch.dot THEN To(sc, "stateNumberFrac")
  ELSE IF b = ch.e \/ b = ch.E THEN To(sc, "stateNumberExp")
  ELSE finishNumber(sc)

stateNumberDotOrExp(sc, b) ==
  IF b = ch.dot THEN To(sc, "stateNumberFrac")
  ELSE IF b = ch.e \/ b = ch.E THEN To(sc, "stateNumberExp")
  ELSE finishNumber(sc)

stateNumberDigits(sc, b) ==
  IF isDecimalDigit(b) THEN To(sc, "stateNumberDigits")
  ELSE stateNumberDotOrExp(sc, b)

stateNumberFrac(sc, b) ==
  IF isDecimalDigit(b) THEN To(sc, "stateNumberFracDigits")
  ELSE syntaxError(sc, b, expectNumberFrac)

stateNumberFracDigits(sc, b) ==
  IF isDecimalDigit(b) THEN To(sc, "stateNumberFracDigits")
  ELSE IF b = ch.e \/ b = ch.E THEN To(sc, "stateNumberExp")
  ELSE finishNumber(sc)

stateNumberExp(sc, b) ==
  IF b = ch.plus \/ b = ch.minus THEN To(sc, "stateNumberExpDigit")
  ELSE IF isDecimalDigit(b) THEN To(sc, "stateNumberExpDigits")
  ELSE syntaxError(sc, b, expectNumberExp)

stateNumberExpDigit(sc, b) ==
  IF isDecimalDigit(b) THEN To(sc, "stateNumberExpDigits")
  ELSE syntaxError(sc, b, expectNumberExpDigit)

stateNumberExpDigits(sc, b) ==
  IF isDecimalDigit(b) THEN To(sc, "stateNumberExpDigits")
  ELSE finishNumber(sc)

(* state(s, b): the call through the stateFunc value st *)
stateFunc(st, sc, b) ==
  CASE st = "stateStart" -> stateStart(sc, b)
    [] st = "stateEnd" ->
         IF sc.multi THEN stateEndMultiple(sc, b) ELSE stateEnd(sc, b)
    [] st = "stateValue" -> stateValue(sc, b)
    [] st = "stateArrayElementOrClose" -> stateArrayElementOrClose(sc, b)
    [] st = "stateArrayCommaOrClose" -> stateArrayCommaOrClose(sc, b)
    [] st = "stateObjectKeyOrClose" -> stateObjectKeyOrClose(sc, b)
    [] st = "stateObjectColon" -> stateObjectColon(sc, b)
    [] st = "stateObjectCommaOrClose" -> stateObjectCommaOrClose(sc, b)
    [] st = "stateObjectKey" -> stateObjectKey(sc, b)
    [] st = "stateNu" -> stateNu(sc, b)
    [] st = "stateNul" -> stateNul(sc, b)
    [] st = "stateNull" -> stateNull(sc, b)
    [] st = "stateTr" -> stateTr(sc, b)
    [] st = "stateTru" -> stateTru(sc, b)
    [] st = "stateTrue" -> stateTrue(sc, b)
    [] st = "stateFa" -> stateFa(sc, b)
    [] st = "stateFal" -> stateFal(sc, b)
    [] st = "stateFals" -> stateFals(sc, b)
    [] st = "stateFalse" -> stateFalse(sc, b)
    [] st = "stateString" -> stateString(sc, b)
    [] st = "stateStringEscape" -> stateStringEscape(sc, b)
    [] st = "stateStringUnicodeEscape1" -> stateStringUnicodeEscape1(sc, b)
    [] st = "stateStringUnicodeEscape2" -> stateStringUnicodeEscape2(sc, b)
    [] st = "stateStringUnicodeEscape3" -> stateStringUnicodeEscape3(sc, b)
    [] st = "stateStringUnicodeEscape4" -> stateStringUnicodeEscape4(sc, b)
    [] st = "stateNumberNeg" -> stateNumberNeg(sc, b)
    [] st = "stateNumberDigits" -> stateNumberDigits(sc, b)
    [] st = "stateNumberDotOrExp" -> stateNumberDotOrExp(sc, b)
    [] st = "stateNumberFrac" -> stateNumberFrac(sc, b)
    [] st = "stateNumberFracDigits" -> stateNumberFracDigits(sc, b)
    [] st = "stateNumberExp" -> stateNumberExp(sc, b)
    [] st = "stateNumberExpDigit" -> stateNumberExpDigit(sc, b)
    [] st = "stateNumberExpDigits" -> stateNumberExpDigits(sc, b)

-----------------------------------------------------------------------------
(* The byte source (io.Reader).  It hands out the bytes of `input` from     *)
(* offset off on; a read ends at the next offset in cuts, at the end of     *)
(* the input or when the destination is full.  fault describes the one      *)
(* irregular read of the source, issued when the read offset is fault.at:   *)
(*   "zero"    - (0, nil), once;                                            *)
(*   "err"     - (0, ErrSource);                                            *)
(*   "errdata" - the bytes up to the next cut together with ErrSource.      *)
(* With eofData the source returns io.EOF together with the last bytes      *)
(* instead of with a later empty read.                                      *)
NoFault == [kind |-> "none", at |-> 0]

NewReader(cuts, fault, eofData) ==
  [off |-> 0, cuts |-> cuts, fault |-> fault, fired |-> FALSE, eofData |-> eofData]

NextCut(rd) ==
  LET later == {c \in rd.cuts : c > rd.off /\ c < Len(input)}
  IN IF later = {} THEN Len(input)
     ELSE CHOOSE c \in later : \A d \in later : c <= d

Read(rd, max) ==
  IF rd.fault.kind = "zero" /\ ~rd.fired /\ rd.off = rd.fault.at
  THEN [bytes |-> <<>>, err |-> nil, rd |-> [rd EXCEPT !.fired = TRUE]]
  ELSE IF rd.fault.kind = "err" /\ rd.off = rd.fault.at
  THEN [bytes |-> <<>>, err |-> ErrSource, rd |-> rd]
  ELSE IF rd.off >= Len(input)
  THEN [bytes |-> <<>>, err |-> EOF, rd |-> rd]
  ELSE LET k == Min(NextCut(rd) - rd.off, max)
           e == IF rd.fault.kind = "errdata" /\ rd.off = rd.fault.at THEN ErrSource
                ELSE IF rd.eofData /\ rd.off + k = Len(input) THEN EOF
                ELSE nil
       IN [bytes |-> Slice(input, rd.off, rd.off + k), err |-> e,
           rd |-> [rd EXCEPT !.off = rd.off + k]]

-----------------------------------------------------------------------------
(* The scanner.  buf is s.buf (its len(s.buf) visible bytes), stale the     *)
(* bytes of the same backing array behind them that earlier reads and       *)
(* copies left there, cap its capacity; the rest of the array is zero.      *)
NewScanner(rd) ==
  [states |-> <<"stateStart">>,
   pos |-> 0, buf |-> <<>>, stale |-> <<>>, cap |-> initCap,
   kind |-> 0, eofOK |-> FALSE, err |-> nil,
   cook |-> FALSE, isKey |-> FALSE, boolValue |-> FALSE, multi |-> FALSE,
   data |-> [i \in {nameData, valueData} |-> [pos |-> 0, end |-> 0, cook |-> FALSE]],
   rd |-> rd]

Zeros(n) == [i \in 1..n |-> 0]

(* the array image img, known at least up to offset n *)
Known(img, n) == IF Len(img) < n THEN img \o Zeros(n - Len(img)) ELSE img

(* the array image img with bytes written from 0-based offset off on *)
WriteAt(img, off, bytes) ==
  LET m == Known(img, off)
  IN SubSeq(m, 1, off) \o bytes \o SubSeq(m, off + Len(bytes) + 1, Len(m))

(* the byte at 0-based offset i of an array image (zero where never written) *)
ImgAt(img, i) == IF i < Len(img) THEN img[i + 1] ELSE 0

ImgSlice(img, lo, hi) == SubSeq(Known(img, hi), lo + 1, hi)

RegionEnd(sc, i) == IF sc.data[i].end < 0 THEN sc.pos ELSE sc.data[i].end

LiveBytes(sc, i) ==
  IF sc.data[i].pos >= 0 THEN RegionEnd(sc, i) - sc.data[i].pos ELSE 0

(* one iteration of the relocation loop of fill: region i moves to offset n *)
(* variant: the bytes move but the region keeps its old offsets *)
RelocateStale(sc, i, n) == sc.data[i]

Relocate(sc, i, n) ==
  IF sc.data[i].pos >= 0
  THEN [sc.data[i] EXCEPT !.pos = n,
                          !.end = IF @ < 0 THEN @ ELSE n + @ - sc.data[i].pos]
  ELSE sc.data[i]

fill(sc) ==
  LET live == LiveBytes(sc, nameData) + LiveBytes(sc, valueData)
      grow == sc.cap - live < minRead
      cap1 == IF grow THEN 2 * sc.cap + minRead ELSE sc.cap
      old == sc.buf \o sc.stale
      img0 == IF grow THEN <<>> ELSE old
      \* i = nameData
      src0 == ImgSlice(old, sc.data[nameData].pos, RegionEnd(sc, nameData))
      n1 == LiveBytes(sc, nameData)
      img1 == IF sc.data[nameData].pos >= 0 THEN WriteAt(img0, 0, src0) ELSE img0
      \* i = valueData; s.buf still shares its array with buf unless buf is new
      cur == IF grow THEN old ELSE img1
      src1 == ImgSlice(cur, sc.data[valueData].pos, RegionEnd(sc, valueData))
      n2 == n1 + LiveBytes(sc, valueData)
      img2 == IF sc.data[valueData].pos >= 0 THEN WriteAt(img1, n1, src1) ELSE img1
      rr == Read(sc.rd, cap1 - n2)
      img3 == WriteAt(img2, n2, rr.bytes)
      len == n2 + Len(rr.bytes)
  IN [sc EXCEPT !.data = [i \in {nameData, valueData} |->
                            IF i = nameData THEN Relocate(sc, i, 0)
                            ELSE Relocate(sc, i, n1)],
                !.err = rr.err,
                !.rd = rr.rd,
                !.cap = cap1,
                !.buf = SubSeq(img3, 1, len),
                !.stale = SubSeq(img3, len + 1, Len(img3)),
                !.pos = n2]

Result(sc, r) == [s |-> sc, ret |-> r]

(* the end-of-input tail of Scan: the state function sees one last ' ' *)
(* variant: a syntax error found on the pretend space survives *)
ScanEOFKeepsError(sc, st) ==
  LET r == stateFunc(st, sc, ch.sp)
      s2 == [r.s EXCEPT !.pos = Len(r.s.buf)]
  IN IF r.st = "nil" /\ s2.kind >= 0 THEN Result(s2, TRUE)
     ELSE IF ~s2.eofOK /\ s2.err = EOF
     THEN Result([s2 EXCEPT !.err = ErrUnexpectedEOF], FALSE)
     ELSE Result(s2, FALSE)

ScanEOF(sc, st) ==
  LET r == stateFunc(st, sc, ch.sp)
      s2 == [r.s EXCEPT !.pos = Len(r.s.buf)]
  IN IF r.st = "nil" /\ s2.kind >= 0 THEN Result(s2, TRUE)
     ELSE IF ~s2.eofOK THEN Result([s2 EXCEPT !.err = ErrUnexpectedEOF], FALSE)
     ELSE Result(s2, FALSE)

RECURSIVE ScanBuf(_, _, _)
(* The inner loop of Scan over the next n bytes of s.buf: the scanner and   *)
(* the state function behind the last byte taken, done when a state         *)
(* function returned nil.  The bytes are taken one by one, in order; the    *)
(* run is halved only to keep the evaluation shallow on long buffers.       *)
ScanBuf(sc, st, n) ==
  IF n = 0 THEN [s |-> sc, st |-> st, done |-> FALSE]
  ELSE IF n = 1
  THEN CHOOSE x \in {[s |-> [r.s EXCEPT !.pos = @ + 1], st |-> r.st,
                       done |-> r.st = "nil"] :
                        r \in {stateFunc(st, sc, At(sc.buf, sc.pos))}} : TRUE
  ELSE CHOOSE x \in {IF h.done THEN h ELSE ScanBuf(h.s, h.st, n - n \div 2) :
                        h \in {ScanBuf(sc, st, n \div 2)}} : TRUE

RECURSIVE ScanLoopDropsRead(_, _)
(* variant: bytes that a read returns together with an error are dropped *)
ScanLoopDropsRead(sc, st) ==
  IF sc.pos < Len(sc.buf)
  THEN CHOOSE x \in {IF r.done THEN Result(r.s, r.s.kind >= 0)
                     ELSE ScanLoopDropsRead(r.s, r.st) :
                       r \in {ScanBuf(sc, st, Len(sc.buf) - sc.pos)}} : TRUE
  ELSE LET s1 == IF sc.err = nil THEN fill(sc) ELSE sc
       IN IF sc.err = nil /\ s1.err = nil /\ s1.pos < Len(s1.buf)
          THEN ScanLoopDropsRead(s1, st)
          ELSE IF s1.err # EOF THEN Result(s1, FALSE)
          ELSE ScanEOF(s1, st)

RECURSIVE ScanLoop(_, _)
ScanLoop(sc, st) ==
  IF sc.pos < Len(sc.buf)
  THEN CHOOSE x \in {IF r.done THEN Result(r.s, r.s.kind >= 0)
                     ELSE ScanLoop(r.s, r.st) :
                       r \in {ScanBuf(sc, st, Len(sc.buf) - sc.pos)}} : TRUE
  ELSE LET s1 == IF sc.err = nil THEN fill(sc) ELSE sc
       IN IF sc.err = nil /\ s1.pos < Len(s1.buf) THEN ScanLoop(s1, st)
          ELSE IF s1.err # EOF THEN Result(s1, FALSE)
          ELSE ScanEOF(s1, st)

(* variant: the name region of the token before is left as it was *)
ScanKeepsName(sc) ==
  ScanLoop([sc EXCEPT !.kind = -1, !.data[valueData].pos = -1],
           sc.states[Len(sc.states)])

Scan(sc) ==
  ScanLoop([sc EXCEPT !.kind = -1,
                      !.data[nameData].pos = -1,
                      !.data[valueData].pos = -1],
           sc.states[Len(sc.states)])

Kind(sc) == sc.kind

Err(sc) == IF sc.err = EOF THEN nil ELSE sc.err

(* What a call that runs Scan zero or more times leaves: the scanner, what  *)
(* the call returned, whether Scan ran at all, what its last run returned,  *)
(* and the kinds of the tokens that its runs produced, in order.            *)
Ran(sc, r, ran, scanned) ==
  [s |-> sc, ret |-> r, ran |-> ran, scanned |-> scanned,
   toks |-> IF ran /\ scanned THEN <<Kind(sc)>> ELSE <<>>]

(* the token of r, followed by what the rest of the loop did *)
Then(r, rest) == [rest EXCEPT !.toks = <<Kind(r.s)>> \o @]

RECURSIVE SkipLoop(_, _, _)
SkipLoop(sc, n, ran) ==
  IF Len(sc.states) > n
  THEN CHOOSE x \in {IF r.ret THEN Then(r, SkipLoop(r.s, n, TRUE))
                     ELSE Ran(r.s, FALSE, TRUE, FALSE) : r \in {Scan(sc)}} : TRUE
  ELSE [Ran(sc, TRUE, ran, TRUE) EXCEPT !.toks = <<>>]

(* variant: the level is lowered for every kind of token *)
SkipAnyKind(sc) == SkipLoop(sc, Len(sc.states) - 1, FALSE)

(* variant: only an array is skipped *)
SkipArrayOnly(sc) ==
  SkipLoop(sc, IF sc.kind = Array THEN Len(sc.states) - 1 ELSE Len(sc.states), FALSE)

Skip(sc) ==
  SkipLoop(sc, IF sc.kind = Object \/ sc.kind = Array
               THEN Len(sc.states) - 1 ELSE Len(sc.states), FALSE)

ScanToEnd(sc) ==
  CHOOSE x \in {Ran(r.s, r.ret /\ Kind(r.s) # End, TRUE, r.ret) : r \in {Scan(sc)}} : TRUE

(* switches multi-document mode on *)
AllowMultple(sc) == [sc EXCEPT !.multi = TRUE]

(* the number of open containers plus one for the top level *)
NestingLevel(sc) == Len(sc.states)

RECURSIVE Deeper(_, _)
(* the rest of a container below level n that the caller left unfinished *)
Deeper(sc, n) ==
  IF Len(sc.states) > n
  THEN CHOOSE x \in {IF r.ret THEN Then(r, Deeper(r.s, n))
                     ELSE Ran(r.s, FALSE, TRUE, FALSE) : r \in {Scan(sc)}} : TRUE
  ELSE Ran(sc, TRUE, FALSE, TRUE)

(* variant: the End of the container itself is handed out as a token *)
ScanAtLevelToEnd(sc, n) ==
  CHOOSE x \in {IF ~d.ret THEN d
                ELSE CHOOSE y \in {[Ran(r.s, r.ret, TRUE, r.ret) EXCEPT
                                      !.toks = d.toks \o @] : r \in {Scan(d.s)}} : TRUE :
                d \in {Deeper(sc, n)}} : TRUE

ScanAtLevel(sc, n) ==
  CHOOSE x \in {IF ~d.ret THEN d
                ELSE CHOOSE y \in {[Ran(r.s, r.ret /\ Len(r.s.states) >= n, TRUE, r.ret)
                                      EXCEPT !.toks = d.toks \o @] :
                                   r \in {Scan(d.s)}} : TRUE :
                d \in {Deeper(sc, n)}} : TRUE

(* the number of input bytes the state machine has been through *)
Consumed(sc) == sc.rd.off - (Len(sc.buf) - sc.pos)

-----------------------------------------------------------------------------
(* unicode/utf8, unicode/utf16 and parseHex, as cookedData uses them.       *)
RuneError == 65533

InRange(b, lo, hi) == lo <= b /\ b <= hi

(* first[p0] of utf8: size 0 for an invalid lead byte, else the length of   *)
(* the sequence and the accepted range of its second byte                   *)
First(p0) ==
  IF p0 < 128 THEN [size |-> 1, lo |-> 0, hi |-> 0]
  ELSE IF p0 < 194 THEN [size |-> 0, lo |-> 0, hi |-> 0]
  ELSE IF p0 < 224 THEN [size |-> 2, lo |-> 128, hi |-> 191]
  ELSE IF p0 = 224 THEN [size |-> 3, lo |-> 160, hi |-> 191]
  ELSE IF p0 = 237 THEN [size |-> 3, lo |-> 128, hi |-> 159]
  ELSE IF p0 < 240 THEN [size |-> 3, lo |-> 128, hi |-> 191]
  ELSE IF p0 = 240 THEN [size |-> 4, lo |-> 144, hi |-> 191]
  ELSE IF p0 < 244 THEN [size |-> 4, lo |-> 128, hi |-> 191]
  ELSE IF p0 = 244 THEN [size |-> 4, lo |-> 128, hi |-> 143]
  ELSE [size |-> 0, lo |-> 0, hi |-> 0]

Rune(c, n) == [c |-> c, n |-> n]

(* utf8.DecodeRune(p) *)
DecodeRune(p) ==
  IF Len(p) < 1 THEN Rune(RuneError, 0)
  ELSE LET x == First(p[1]) IN
    IF x.size = 1 THEN Rune(p[1], 1)
    ELSE IF x.size = 0 \/ Len(p) < x.size THEN Rune(RuneError, 1)
    ELSE IF ~InRange(p[2], x.lo, x.hi) THEN Rune(RuneError, 1)
    ELSE IF x.size = 2 THEN Rune((p[1] % 32) * 64 + (p[2] % 64), 2)
    ELSE IF ~InRange(p[3], 128, 191) THEN Rune(RuneError, 1)
    ELSE IF x.size = 3
      THEN Rune((p[1] % 16) * 4096 + (p[2] % 64) * 64 + (p[3] % 64), 3)
    ELSE IF ~InRange(p[4], 128, 191) THEN Rune(RuneError, 1)
    ELSE Rune((p[1] % 8) * 262144 + (p[2] % 64) * 4096
                + (p[3] % 64) * 64 + (p[4] % 64), 4)

IsSurrogate(c) == 55296 <= c /\ c < 57344

(* the bytes utf8.EncodeRune writes for the rune c *)
EncodeRune(c) ==
  IF c < 0 \/ c > 1114111 \/ IsSurrogate(c) THEN <<239, 191, 189>>
  ELSE IF c <= 127 THEN <<c>>
  ELSE IF c <= 2047 THEN <<192 + (c \div 64), 128 + (c % 64)>>
  ELSE IF c <= 65535
    THEN <<224 + (c \div 4096), 128 + ((c \div 64) % 64), 128 + (c % 64)>>
  ELSE <<240 + (c \div 262144), 128 + ((c \div 4096) % 64),
         128 + ((c \div 64) % 64), 128 + (c % 64)>>

(* utf16.DecodeRune(r1, r2) *)
DecodeSurrogates(r1, r2) ==
  IF 55296 <= r1 /\ r1 < 56320 /\ 56320 <= r2 /\ r2 < 57344
  THEN (r1 - 55296) * 1024 + (r2 - 56320) + 65536
  ELSE ReplacementChar

HexValue(b) ==
  IF InRange(b, ch.d0, ch.d9) THEN b - ch.d0
  ELSE IF InRange(b, ch.a, ch.f) THEN b - ch.a + 10
  ELSE IF InRange(b, ch.A, ch.F) THEN b - ch.A + 10
  ELSE -1

RECURSIVE parseHexFrom(_, _, _)
parseHexFrom(p, i, r) ==
  IF i > Len(p) THEN r
  ELSE parseHexFrom(p, i + 1, IF HexValue(p[i]) >= 0 THEN r * 16 + HexValue(p[i]) ELSE r)

parseHex(p) == parseHexFrom(p, 1, 0)

-----------------------------------------------------------------------------
(* cookedData.  The cooker's state k: img is the image of the array behind  *)
(* s.buf (rbuf is its window [base, base+len), cap bytes long); same says   *)
(* that wbuf still is rbuf, otherwise wbuf is the freshly made buffer; r,   *)
(* w are the cursors; panic says that an index or slice expression failed.  *)
Unescape(b) ==
  IF b = ch.b THEN ch.bs
  ELSE IF b = ch.f THEN ch.ff
  ELSE IF b = ch.n THEN ch.nl
  ELSE IF b = ch.r THEN ch.cr
  ELSE IF b = ch.t THEN ch.ht
  ELSE b

Rb(k, i) == ImgAt(k.img, k.base + i)

RbSlice(k, lo, hi) == ImgSlice(k.img, k.base + lo, k.base + hi)

WLen(k) == IF k.same THEN k.len ELSE Len(k.wbuf)

(* wbuf[:n] *)
WPrefix(k, n) == IF k.same THEN RbSlice(k, 0, n) ELSE SubSeq(k.wbuf, 1, n)

(* wbuf[w] = b, or EncodeRune(wbuf[w:], c): bytes stored at w, r moved to r1 *)
Put(k, bytes, r1) ==
  IF k.w + Len(bytes) > WLen(k) THEN [k EXCEPT !.panic = TRUE]
  ELSE IF k.same
  THEN [k EXCEPT !.img = WriteAt(k.img, k.base + k.w, bytes),
                 !.w = k.w + Len(bytes), !.r = r1]
  ELSE [k EXCEPT !.wbuf = WriteAt(k.wbuf, k.w, bytes),
                 !.w = k.w + Len(bytes), !.r = r1]

(* variant: the escape behind a surrogate is always consumed with it *)
CookUnicodeSwallows(k, r) ==
  IF r + 5 > k.cap THEN [k EXCEPT !.panic = TRUE]
  ELSE LET c == parseHex(RbSlice(k, r + 1, r + 5))
           r1 == r + 5
       IN IF ~IsSurrogate(c) THEN Put(k, EncodeRune(c), r1)
          ELSE IF r1 + 6 <= k.len /\ Rb(k, r1) = ch.backslash /\ Rb(k, r1 + 1) = ch.u
          THEN LET c2 == DecodeSurrogates(c, parseHex(RbSlice(k, r1 + 2, r1 + 6)))
               IN Put(k, EncodeRune(c2), r1 + 6)
          ELSE Put(k, EncodeRune(ReplacementChar), r1)

(* the \u branch: r is at the 'u' *)
CookUnicode(k, r) ==
  IF r + 5 > k.cap THEN [k EXCEPT !.panic = TRUE]
  ELSE LET c == parseHex(RbSlice(k, r + 1, r + 5))
           r1 == r + 5
       IN IF ~IsSurrogate(c) THEN Put(k, EncodeRune(c), r1)
          ELSE IF r1 + 6 <= k.len /\ Rb(k, r1) = ch.backslash /\ Rb(k, r1 + 1) = ch.u
          THEN LET c2 == DecodeSurrogates(c, parseHex(RbSlice(k, r1 + 2, r1 + 6)))
               IN Put(k, EncodeRune(c2), IF c2 # ReplacementChar THEN r1 + 6 ELSE r1)
          ELSE Put(k, EncodeRune(ReplacementChar), r1)

(* the size of the buffer made when the output no longer fits *)
GrownLen(k, r) == k.w + 3 + (4 * (k.len - r)) \div 3

(* variant: any short rune, valid or not, moves the output to a new buffer *)
MustGrowAnyRune(k, d, r) ==
  /\ d.n < 3
  /\ \/ k.same /\ k.w + 3 >= r
     \/ k.w + 3 >= WLen(k)

(* variant: the output moves to a new buffer only when wbuf is full *)
MustGrowWhenFull(k, d, r) ==
  /\ d.c = RuneError
  /\ d.n < 3
  /\ k.w + 3 >= WLen(k)

MustGrow(k, d, r) ==
  /\ d.c = RuneError
  /\ d.n < 3
  /\ \/ k.same /\ k.w + 3 >= r
     \/ k.w + 3 >= WLen(k)

(* the default branch: a byte >= RuneSelf at r *)
CookRune(k) ==
  LET d == DecodeRune(RbSlice(k, k.r, k.len))
      r1 == k.r + d.n
      k1 == IF MustGrow(k, d, r1)
            THEN [k EXCEPT !.wbuf = WPrefix(k, k.w)
                               \o Zeros(GrownLen(k, r1) - k.w),
                           !.same = FALSE]
            ELSE k
  IN Put(k1, EncodeRune(d.c), r1)

CookStep(k) ==
  LET b == Rb(k, k.r) IN
  IF b = ch.backslash THEN
    IF k.r + 1 >= k.len THEN [k EXCEPT !.panic = TRUE]
    ELSE IF Rb(k, k.r + 1) # ch.u THEN Put(k, <<Unescape(Rb(k, k.r + 1))>>, k.r + 2)
    ELSE CookUnicode(k, k.r + 1)
  ELSE IF b < RuneSelf THEN Put(k, <<b>>, k.r + 1)
  ELSE CookRune(k)

RECURSIVE CookLoop(_)
CookLoop(k) ==
  IF k.panic \/ k.r >= k.len THEN k ELSE CookLoop(CookStep(k))

(* What an accessor hands back: isnil for a nil slice, bytes its content,   *)
(* fresh when it is not a view into s.buf, panic when the call panicked;    *)
(* s is the scanner afterwards (cooking in place rewrites s.buf).           *)
Bytes(sc, isnil, bytes, fresh, panic) ==
  [s |-> sc, isnil |-> isnil, bytes |-> bytes, fresh |-> fresh, panic |-> panic]

(* the cooker at the start of the loop: rbuf is the region, wbuf is rbuf *)
Cooker(sc, data) ==
  [img |-> sc.buf \o sc.stale, base |-> data.pos,
   len |-> data.end - data.pos, cap |-> sc.cap - data.pos,
   wbuf |-> <<>>, same |-> TRUE, r |-> 0, w |-> 0, panic |-> FALSE]

cookedData(sc, dataIndex) ==
  LET data == sc.data[dataIndex] IN
  IF data.pos < 0 THEN Bytes(sc, TRUE, <<>>, FALSE, FALSE)
  ELSE IF data.end < data.pos \/ data.end > sc.cap
  THEN Bytes(sc, TRUE, <<>>, FALSE, TRUE)
  ELSE IF ~data.cook
  THEN Bytes(sc, FALSE, ImgSlice(sc.buf \o sc.stale, data.pos, data.end), FALSE, FALSE)
  ELSE LET k == CookLoop(Cooker(sc, data))
           s1 == [sc EXCEPT !.buf = SubSeq(k.img, 1, Len(sc.buf)),
                            !.stale = SubSeq(k.img, Len(sc.buf) + 1, Len(k.img))]
       IN IF k.panic THEN Bytes(s1, TRUE, <<>>, FALSE, TRUE)
          ELSE Bytes(s1, FALSE, WPrefix(k, k.w), ~k.same, FALSE)

Name(sc) == cookedData(sc, nameData)

Value(sc) == cookedData(sc, valueData)

-----------------------------------------------------------------------------
(* The Writer.  dst is what has reached the io.Writer, bw whether the       *)
(* Writer put a bufio.Writer in front of it (the io.Writer has no WriteByte *)
(* and WriteString of its own), buf the bytes that the bufio.Writer holds   *)
(* back until Flush.  The texts written here are far shorter than the       *)
(* 4096 bytes at which a bufio.Writer flushes by itself.                    *)
NewWriter(isStringWriter) ==
  [bw |-> ~isStringWriter, dst |-> <<>>, buf |-> <<>>, comma |-> FALSE, depth |-> 0]

(* w.sw.Write(p), w.sw.WriteByte(c), w.sw.WriteString(s) *)
swWrite(w, p) ==
  IF w.bw THEN [w EXCEPT !.buf = @ \o p] ELSE [w EXCEPT !.dst = @ \o p]

Flush(w) == [w EXCEPT !.dst = @ \o w.buf, !.buf = <<>>]

end(w) ==
  IF w.depth # 0 THEN [w EXCEPT !.comma = TRUE]
  ELSE IF w.bw THEN Flush([w EXCEPT !.comma = FALSE])
  ELSE [w EXCEPT !.comma = FALSE]

(* if w.comma { w.sw.WriteByte(',') } *)
writeComma(w) == IF w.comma THEN swWrite(w, <<ch.comma>>) ELSE w

WriterStartArray(w) ==
  swWrite([writeComma(w) EXCEPT !.comma = FALSE, !.depth = @ + 1], <<ch.lbrack>>)

WriterEndArray(w) == end(swWrite([w EXCEPT !.depth = @ - 1], <<ch.rbrack>>))

WriterStartObject(w) ==
  swWrite([writeComma(w) EXCEPT !.comma = FALSE, !.depth = @ + 1], <<ch.lbrace>>)

WriterEndObject(w) == end(swWrite([w EXCEPT !.depth = @ - 1], <<ch.rbrace>>))

(* writeString and writeStringBytes for a text of bytes that need no        *)
(* escape: the text between quotes                                          *)
writeString(w, str) == swWrite(w, <<ch.quote>> \o str \o <<ch.quote>>)

writeStringBytes(w, p) == swWrite(w, <<ch.quote>> \o p \o <<ch.quote>>)

(* variant: the comma flag survives the name *)
WriterNameKeepsComma(w, name) ==
  swWrite(writeString(writeComma(w), name), <<ch.colon>>)

WriterName(w, name) ==
  swWrite(writeString([writeComma(w) EXCEPT !.comma = FALSE], name), <<ch.colon>>)

write(w, p) == end(swWrite(writeComma(w), p))

writeQuoted(w, p) ==
  end(swWrite(swWrite(swWrite(writeComma(w), <<ch.quote>>), p), <<ch.quote>>))

RECURSIVE AppendDigits(_)
(* the decimal digits of n >= 0 *)
AppendDigits(n) ==
  IF n < 10 THEN <<ch.d0 + n>> ELSE AppendDigits(n \div 10) \o <<ch.d0 + (n % 10)>>

(* strconv.AppendUint(dst[:0], u, 10) *)
AppendUint(u) == AppendDigits(u)

(* strconv.AppendInt(dst[:0], i, 10) *)
AppendInt(i) == IF i < 0 THEN <<ch.minus>> \o AppendDigits(-i) ELSE AppendDigits(i)

(* strconv.FormatBool(b) *)
FormatBool(b) ==
  IF b THEN <<ch.t, ch.r, ch.u, ch.e>> ELSE <<ch.f, ch.a, ch.l, ch.s, ch.e>>

(* A float64 that a short decimal literal denotes, as strconv holds it for  *)
(* formatting: digs are the decimal digits without leading and trailing     *)
(* zeros, dp the place of the decimal point in front of them (the value is  *)
(* 0.digs * 10^dp), neg the sign.  Literals of up to 15 significant digits  *)
(* denote different float64 values exactly when these differ, and the       *)
(* shortest digits that denote the value (precision -1) are digs.           *)
Decimal(neg, digs, dp) == [neg |-> neg, digs |-> digs, dp |-> dp]

RECURSIVE DropZerosFront(_)
DropZerosFront(q) == IF q # <<>> /\ q[1] = 0 THEN DropZerosFront(Tail(q)) ELSE q

RECURSIVE DropZerosBack(_)
DropZerosBack(q) ==
  IF q # <<>> /\ q[Len(q)] = 0 THEN DropZerosBack(SubSeq(q, 1, Len(q) - 1)) ELSE q

RECURSIVE Atoi(_)
(* the number that a run of decimal digits denotes *)
Atoi(q) ==
  IF q = <<>> THEN 0 ELSE 10 * Atoi(SubSeq(q, 1, Len(q) - 1)) + (q[Len(q)] - ch.d0)

(* the first place of q that holds a byte of B, Len(q) + 1 if none does *)
IndexOf(q, B) ==
  IF \E i \in 1..Len(q) : q[i] \in B
  THEN CHOOSE i \in 1..Len(q) : q[i] \in B /\ \A j \in 1..(i - 1) : q[j] \notin B
  ELSE Len(q) + 1

(* strconv.ParseFloat(text, 64) for a literal of the JSON number grammar *)
ParseFloat(text) ==
  LET neg == text # <<>> /\ text[1] = ch.minus
      body == IF neg THEN Tail(text) ELSE text
      epos == IndexOf(body, {ch.e, ch.E})
      mant == SubSeq(body, 1, epos - 1)
      expo == SubSeq(body, epos + 1, Len(body))
      esign == expo # <<>> /\ expo[1] \in {ch.plus, ch.minus}
      e == (IF expo # <<>> /\ expo[1] = ch.minus THEN -1 ELSE 1)
             * Atoi(IF esign THEN Tail(expo) ELSE expo)
      dot == IndexOf(mant, {ch.dot})
      int == SubSeq(mant, 1, dot - 1)
      all == [i \in 1..(Len(mant) - (IF dot <= Len(mant) THEN 1 ELSE 0)) |->
                (IF i < dot THEN mant[i] ELSE mant[i + 1]) - ch.d0]
      front == DropZerosFront(all)
      digs == DropZerosBack(front)
  IN Decimal(neg, digs,
             IF digs = <<>> THEN 0 ELSE Len(int) + e - (Len(all) - Len(front)))

DigitBytes(digs) == [i \in 1..Len(digs) |-> ch.d0 + digs[i]]

(* %e of strconv: d.ddde+xx, with at least two digits of exponent *)
fmtE(v) ==
  LET exp == v.dp - 1
      mag == IF exp < 0 THEN -exp ELSE exp
  IN (IF v.neg THEN <<ch.minus>> ELSE <<>>)
       \o <<ch.d0 + v.digs[1]>>
       \o (IF Len(v.digs) > 1 THEN <<ch.dot>> \o DigitBytes(Tail(v.digs)) ELSE <<>>)
       \o <<ch.e, IF exp < 0 THEN ch.minus ELSE ch.plus>>
       \o (IF mag < 10 THEN <<ch.d0>> ELSE <<>>) \o AppendDigits(mag)

(* %f of strconv with as many decimals as digs has behind the point *)
fmtF(v) ==
  LET nd == Len(v.digs)
      prec == IF nd > v.dp THEN nd - v.dp ELSE 0
  IN (IF v.neg THEN <<ch.minus>> ELSE <<>>)
       \o (IF v.dp > 0
           THEN [i \in 1..v.dp |-> IF i <= nd THEN ch.d0 + v.digs[i] ELSE ch.d0]
           ELSE <<ch.d0>>)
       \o (IF prec > 0
           THEN <<ch.dot>> \o [i \in 1..prec |->
                                 IF v.dp + i >= 1 /\ v.dp + i <= nd
                                 THEN ch.d0 + v.digs[v.dp + i] ELSE ch.d0]
           ELSE <<>>)

(* strconv.AppendFloat(dst[:0], f, 'g', -1, 64): %e when the exponent is    *)
(* less than -4 or at least 6 (the precision that stands for "shortest"),   *)
(* %f otherwise                                                             *)
AppendFloat(v) ==
  IF v.digs # <<>> /\ (v.dp - 1 < -4 \/ v.dp - 1 >= 6) THEN fmtE(v) ELSE fmtF(v)

(* f is finite: the value of a literal within the range of float64 *)
WriterFloat(w, v) == write(w, AppendFloat(v))

WriterUint(w, u) == write(w, AppendUint(u))

WriterInt(w, i) == write(w, AppendInt(i))

WriterQuotedUint(w, u) == writeQuoted(w, AppendUint(u))

WriterQuotedInt(w, i) == writeQuoted(w, AppendInt(i))

WriterBool(w, b) == end(swWrite(writeComma(w), FormatBool(b)))

WriterString(w, str) == end(writeString(writeComma(w), str))

WriterStringBytes(w, p) == end(writeStringBytes(writeComma(w), p))

-----------------------------------------------------------------------------
(* Bounds of the model.                                                     *)
MaxLen == 3
MaxFalse == 2

(* Inputs.                                                                  *)
Strs(A, n) == UNION {[1..k -> A] : k \in 0..n}

Alphabet ==
  {ch.lbrack, ch.rbrack, ch.lbrace, ch.rbrace, ch.comma, ch.colon,
   ch.quote, ch.d1, ch.sp, ch.x}

(* {"a":[1,null],"b":{}} *)
Doc1 ==
  <<ch.lbrace, ch.quote, ch.a, ch.quote, ch.colon, ch.lbrack, ch.d1, ch.comma,
    ch.n, ch.u, ch.l, ch.l, ch.rbrack, ch.comma, ch.quote, ch.b, ch.quote,
    ch.colon, ch.lbrace, ch.rbrace, ch.rbrace>>

(* [ true,"a\n" ,-10.5e+2] *)
Doc2 ==
  <<ch.lbrack, ch.sp, ch.t, ch.r, ch.u, ch.e, ch.comma, ch.quote, ch.a,
    ch.backslash, ch.n, ch.quote, ch.sp, ch.comma, ch.minus, ch.d1, ch.d0,
    ch.dot, ch.d9, ch.e, ch.plus, ch.d2, ch.rbrack>>

Corpus == {Doc1, Doc2}

MutBytes ==
  {ch.lbrack, ch.rbrack, ch.lbrace, ch.rbrace, ch.comma, ch.colon,
   ch.quote, ch.d1, ch.sp, ch.x}

Prefix(d, i) == SubSeq(d, 1, i)

Suffix(d, i) == SubSeq(d, i + 1, Len(d))

(* a document, cut short, or with one byte replaced, dropped or added *)
Mutations(d) ==
  {d}
  \cup {Prefix(d, i) : i \in 0..(Len(d) - 1)}
  \cup {Prefix(d, i - 1) \o Suffix(d, i) : i \in 1..Len(d)}
  \cup UNION {{Prefix(d, i - 1) \o <<b>> \o Suffix(d, i) : i \in 1..Len(d)} : b \in MutBytes}
  \cup UNION {{Prefix(d, i) \o <<b>> \o Suffix(d, i) : i \in 0..Len(d)} : b \in MutBytes}

Inputs == Strs(Alphabet, MaxLen) \cup UNION {Mutations(d) : d \in Corpus}

(* doc for an input that is not built around a token under test *)
PlainDoc(q) == [family |-> "plain", pre |-> <<>>, text |-> q, post |-> <<>>, at |-> 0]

(* The ways the source delivers an input of n bytes: all in one read, one   *)
(* byte per read, two bytes per read starting at either parity (so that a   *)
(* read ends inside a token that began earlier in the buffer), and all in   *)
(* one read that also reports io.EOF.                                       *)
SingleRead == NewReader({}, NoFault, FALSE)

Readers(n) ==
  {SingleRead,
   NewReader(1..n, NoFault, FALSE),
   NewReader({k \in 1..n : k % 2 = 0}, NoFault, FALSE),
   NewReader({k \in 1..n : k % 2 = 1}, NoFault, FALSE),
   NewReader({}, NoFault, TRUE)}

NoBytes == [isnil |-> TRUE, bytes |-> <<>>, fresh |-> FALSE, panic |-> FALSE]

Returned(r) == [isnil |-> r.isnil, bytes |-> r.bytes, fresh |-> r.fresh, panic |-> r.panic]

ScannerStart(d, rd) ==
  /\ doc = d
  /\ input = d.pre \o d.text \o d.post
  /\ s = NewScanner(rd)
  /\ ref = NewScanner(SingleRead)
  /\ ret = FALSE
  /\ refret = FALSE
  /\ out = NoBytes
  /\ refout = NoBytes
  /\ last = "NewScanner"
  /\ nscan = 0
  /\ nfalse = 0
  /\ panicked = FALSE
  /\ level = 0
  /\ mark = 0

Start(d, rd) ==
  /\ ScannerStart(d, rd)
  /\ writer = NewWriter(TRUE)
  /\ calls = <<>>
  /\ seen = <<>>

Init ==
  \E q \in Inputs : \E rd \in Readers(Len(q)) : Start(PlainDoc(q), rd)

-----------------------------------------------------------------------------
(* The calls of the caller.                                                 *)
DoScan ==
  /\ ~panicked
  /\ nfalse < MaxFalse
  /\ LET r == Scan(s)
         rr == Scan(ref)
     IN /\ s' = r.s
        /\ ret' = r.ret
        /\ ref' = rr.s
        /\ refret' = rr.ret
        /\ nfalse' = IF r.ret THEN nfalse ELSE nfalse + 1
  /\ nscan' = nscan + 1
  /\ out' = NoBytes
  /\ refout' = NoBytes
  /\ last' = "Scan"
  /\ UNCHANGED <<input, doc, panicked, level, mark, writer, calls, seen>>

Access(r, rr, which) ==
  /\ s' = r.s
  /\ ref' = rr.s
  /\ out' = Returned(r)
  /\ refout' = Returned(rr)
  /\ panicked' = r.panic
  /\ last' = which
  /\ UNCHANGED <<input, doc, ret, refret, nscan, nfalse, level, mark, writer, calls, seen>>

DoValue == ~panicked /\ Access(Value(s), Value(ref), "Value")

DoName == ~panicked /\ Access(Name(s), Name(ref), "Name")

Next == DoScan \/ DoValue \/ DoName

Spec == Init /\ [][Next]_vars

(* a call that runs Scan inside: r on s, rr on ref *)
Advance(r, rr, which) ==
  /\ s' = r.s
  /\ ref' = rr.s
  /\ ret' = (IF r.ran THEN r.ret ELSE ret)
  /\ refret' = (IF rr.ran THEN rr.ret ELSE refret)
  /\ nfalse' = (IF r.ran /\ ~r.scanned THEN nfalse + 1 ELSE nfalse)
  /\ out' = NoBytes
  /\ refout' = NoBytes
  /\ last' = which
  /\ UNCHANGED <<input, doc, panicked, level, mark, writer, calls, seen>>

DoSkip ==
  /\ ~panicked
  /\ nfalse < MaxFalse
  /\ \E r \in {Skip(s)} : \E rr \in {Skip(ref)} : Advance(r, rr, "Skip")
  /\ UNCHANGED nscan

(* asked right after the start of a container, as DecodeValue does *)
DoNestingLevel ==
  /\ ~panicked
  /\ ret
  /\ Kind(s) \in {Array, Object}
  /\ level' = NestingLevel(s)
  /\ mark' = Consumed(s)
  /\ last' = "NestingLevel"
  /\ UNCHANGED <<input, doc, s, ref, ret, refret, out, refout, nscan, nfalse,
                 panicked, writer, calls, seen>>

DoScanAtLevel ==
  /\ ~panicked
  /\ nfalse < MaxFalse
  /\ level > 0
  /\ \E r \in {ScanAtLevel(s, level)} : \E rr \in {ScanAtLevel(ref, level)} :
       Advance(r, rr, "ScanAtLevel")
  /\ nscan' = nscan + 1

NextNav == DoScan \/ DoSkip \/ DoNestingLevel \/ DoScanAtLevel

-----------------------------------------------------------------------------
(* Number literals in context (specification SpecNum).                      *)
MaxIntDigits == 2
MaxFracDigits == 1
MaxExpDigits == 1

RECURSIVE Concats(_, _)
(* the concatenations of at most n members of A *)
Concats(A, n) ==
  IF n = 0 THEN {<<>>}
  ELSE LET P == Concats(A, n - 1) IN P \cup {p \o a : p \in P, a \in A}

DigitRuns(n) == Concats({<<ch.d0>>, <<ch.d1>>}, n) \ {<<>>}

IntParts == {<<ch.d0>>} \cup {r \in DigitRuns(MaxIntDigits) : r[1] # ch.d0}

FracParts == {<<>>} \cup {<<ch.dot>> \o r : r \in DigitRuns(MaxFracDigits)}

ExpParts ==
  {<<>>} \cup {<<e>> \o sg \o r : e \in {ch.e, ch.E},
                                 sg \in {<<>>, <<ch.plus>>, <<ch.minus>>},
                                 r \in DigitRuns(MaxExpDigits)}

NumberLits ==
  {sg \o i \o f \o e : sg \in {<<>>, <<ch.minus>>}, i \in IntParts,
                       f \in FracParts, e \in ExpParts}

InDoc(family, pre, text, post, at) ==
  [family |-> family, pre |-> pre, text |-> text, post |-> post, at |-> at]

MemberStart == <<ch.lbrace, ch.quote, ch.a, ch.quote, ch.colon>>

(* what stands before and behind the literal, and the Scan that yields it *)
NumberContexts ==
  {<< <<>>, <<>>, 1 >>,
   << <<ch.sp>>, <<ch.nl>>, 1 >>,
   << <<ch.lbrack>>, <<ch.rbrack>>, 2 >>,
   << <<ch.lbrack>>, <<>>, 2 >>,
   << <<ch.lbrack>>, <<ch.comma, ch.lbrack, ch.rbrack, ch.rbrack>>, 2 >>,
   << MemberStart, <<ch.rbrace>>, 2 >>}

NumberDocs ==
  {InDoc("number", c[1], n, c[2], c[3]) : c \in NumberContexts, n \in NumberLits}

(* a 0 or -0 with a digit right behind it *)
ZeroDocs ==
  {InDoc("zero", c[1], z, <<d>> \o c[2], c[3]) :
     c \in NumberContexts, z \in {<<ch.d0>>, <<ch.minus, ch.d0>>},
     d \in {ch.d0, ch.d1, ch.d9}}

InitNum ==
  \E d \in NumberDocs \cup ZeroDocs :
    \E rd \in Readers(Len(d.pre) + Len(d.text) + Len(d.post)) : Start(d, rd)

SpecNum == InitNum /\ [][Next]_vars

-----------------------------------------------------------------------------
(* Strings and member names that need cooking (specification SpecStr).      *)
MaxAtoms == 4

(* 'a', a lone continuation byte, a two-byte lead byte (valid only before   *)
(* a continuation byte), a three-byte lead byte, and the escape \n          *)
Atoms == {<<ch.a>>, <<128>>, <<195>>, <<226>>, <<ch.backslash, ch.n>>}

StringContexts ==
  {<< <<ch.quote>>, <<ch.quote>>, 1 >>,
   << <<ch.lbrace, ch.quote>>, <<ch.quote, ch.colon, ch.d1, ch.rbrace>>, 2 >>}

StringDocs ==
  {InDoc("string", c[1], x, c[2], c[3]) :
     c \in StringContexts, x \in Concats(Atoms, MaxAtoms)}

InitStr ==
  \E d \in StringDocs :
    \E rd \in Readers(Len(d.pre) + Len(d.text) + Len(d.post)) : Start(d, rd)

SpecStr == InitStr /\ [][Next]_vars

-----------------------------------------------------------------------------
(* Strings and member names with \u escapes (specification SpecEsc).        *)
MaxEscAtoms == 3

(* \uD834, a high surrogate *)
HighEsc == <<ch.backslash, ch.u, 68, 56, 51, 52>>

(* \uDD1E, a low surrogate *)
LowEsc == <<ch.backslash, ch.u, 68, 68, ch.d1, ch.E>>

(* \u0041, the letter A *)
PlainEsc == <<ch.backslash, ch.u, ch.d0, ch.d0, 52, ch.d1>>

EscAtoms == {HighEsc, LowEsc, PlainEsc, <<ch.backslash, ch.n>>, <<ch.a>>}

EscDocs ==
  {InDoc("escape", c[1], x, c[2], c[3]) :
     c \in StringContexts, x \in Concats(EscAtoms, MaxEscAtoms)}

InitEsc ==
  \E d \in EscDocs :
    \E rd \in Readers(Len(d.pre) + Len(d.text) + Len(d.post)) : Start(d, rd)

SpecEsc == InitEsc /\ [][Next]_vars

-----------------------------------------------------------------------------
(* Containers in context, for the calls that move by whole containers       *)
(* (specification SpecNav).                                                 *)
MaxDepth == 2

(* A value: its text, the kind and the end offset of its first token, and   *)
(* for a container its direct children (kind and end offset of the first    *)
(* token of each, counted from the start of the container).                 *)
Val(text, kind, tokEnd, kids) ==
  [text |-> text, kind |-> kind, tokEnd |-> tokEnd, kids |-> kids]

Kid(v, off) == [kind |-> v.kind, end |-> off + v.tokEnd]

Num1 == Val(<<ch.d1>>, Number, 1, <<>>)

(* the string "]" *)
StrBracket == Val(<<ch.quote, ch.rbrack, ch.quote>>, String, 3, <<>>)

KeyA == <<ch.quote, ch.a, ch.quote, ch.colon>>

KeyB == <<ch.quote, ch.b, ch.quote, ch.colon>>

ContainersOf(v) ==
  {Val(<<ch.lbrack, ch.d1, ch.comma>> \o v.text \o <<ch.rbrack>>, Array, 1,
       <<Kid(Num1, 1), Kid(v, 3)>>),
   Val(<<ch.lbrace>> \o KeyA \o v.text \o <<ch.rbrace>>, Object, 1, <<Kid(v, 5)>>),
   Val(<<ch.lbrace>> \o KeyA \o <<ch.d1, ch.comma>> \o KeyB \o v.text \o <<ch.rbrace>>,
       Object, 1, <<Kid(Num1, 5), Kid(v, 11)>>)}

RECURSIVE Vals(_)
Vals(d) ==
  IF d = 0 THEN {Num1, StrBracket}
  ELSE LET V == Vals(d - 1)
       IN V \cup {Val(<<ch.lbrack, ch.rbrack>>, Array, 1, <<>>),
                  Val(<<ch.lbrace, ch.rbrace>>, Object, 1, <<>>)}
            \cup UNION {ContainersOf(v) : v \in V}

Containers == {v \in Vals(MaxDepth) : v.kind \in {Array, Object}}

ContainerContexts ==
  {<< <<>>, <<>>, 1 >>,
   << <<ch.lbrack>>, <<ch.comma, ch.d2, ch.rbrack>>, 2 >>,
   << <<ch.lbrace>> \o KeyA, <<ch.rbrace>>, 2 >>}

(* [[2], 1] *)
LevelTest ==
  Val(<<ch.lbrack, ch.lbrack, ch.d2, ch.rbrack, ch.comma, ch.sp, ch.d1, ch.rbrack>>,
      Array, 1, <<[kind |-> Array, end |-> 2], [kind |-> Number, end |-> 7]>>)

ContainerDocs ==
  {[family |-> "container", pre |-> c[1], text |-> v.text, post |-> c[2],
    at |-> c[3], kids |-> v.kids] :
     c \in ContainerContexts, v \in Containers \cup {LevelTest}}

InitNav ==
  \E d \in ContainerDocs :
    \E rd \in Readers(Len(d.pre) + Len(d.text) + Len(d.post)) : Start(d, rd)

SpecNav == InitNav /\ [][NextNav]_vars

(* The same containers, and a document with one byte dropped, replaced or   *)
(* added, walked by a caller that loops over ScanToEnd (specification       *)
(* SpecEnd).                                                                *)
DoScanToEnd ==
  /\ ~panicked
  /\ nfalse < MaxFalse
  /\ \E r \in {ScanToEnd(s)} : \E rr \in {ScanToEnd(ref)} : Advance(r, rr, "ScanToEnd")
  /\ nscan' = nscan + 1

InitEnd ==
  \/ InitNav
  \/ \E q \in Mutations(Doc1) : \E rd \in Readers(Len(q)) : Start(PlainDoc(q), rd)

NextEnd == DoScan \/ DoSkip \/ DoScanToEnd

(* any input, walked with Scan and Skip (specification SpecWalk) *)
NextWalk == DoScan \/ DoSkip

SpecWalk == Init /\ [][NextWalk]_vars

SpecEnd == InitEnd /\ [][NextEnd]_vars

-----------------------------------------------------------------------------
(* Several top-level values in one input, scanned with and without          *)
(* multi-document mode (specification SpecMulti).                           *)
MaxDocs == 2

(* a top-level value and the kinds of its tokens *)
TopValues ==
  {[text |-> <<ch.lbrace, ch.rbrace>>, toks |-> <<Object, End>>],
   [text |-> <<ch.lbrack, ch.d1, ch.rbrack>>, toks |-> <<Array, Number, End>>],
   [text |-> <<ch.quote, ch.a, ch.quote>>, toks |-> <<String>>],
   [text |-> <<ch.d1, ch.d0>>, toks |-> <<Number>>],
   [text |-> <<ch.n, ch.u, ch.l, ch.l>>, toks |-> <<Null>>],
   [text |-> <<ch.t, ch.r, ch.u, ch.e>>, toks |-> <<Bool>>]}

Separators == {<<ch.sp>>, <<ch.nl, ch.ht>>}

RECURSIVE ValueSeqs(_)
(* up to n values: the text, the kinds of all tokens, the number of tokens  *)
(* of the first value and the first byte of the second value (0 if none)    *)
ValueSeqs(n) ==
  IF n = 1
  THEN {[text |-> v.text, toks |-> v.toks, at |-> Len(v.toks), b |-> 0] : v \in TopValues}
  ELSE LET Q == ValueSeqs(n - 1)
       IN Q \cup {[text |-> q.text \o sep \o v.text, toks |-> q.toks \o v.toks,
                   at |-> q.at, b |-> IF q.b = 0 THEN v.text[1] ELSE q.b] :
                    q \in Q, sep \in Separators, v \in TopValues}

MultiDocs ==
  {[family |-> "multi", pre |-> <<>>, text |-> q.text, post |-> w, at |-> q.at,
    toks |-> q.toks, b |-> q.b] : q \in ValueSeqs(MaxDocs), w \in {<<>>, <<ch.sp>>}}

InitMulti ==
  \E d \in MultiDocs :
    \E rd \in Readers(Len(d.text) + Len(d.post)) : Start(d, rd)

(* called before the first Scan, as TestScanner does *)
DoAllowMultple ==
  /\ last = "NewScanner"
  /\ s' = AllowMultple(s)
  /\ ref' = AllowMultple(ref)
  /\ last' = "AllowMultple"
  /\ UNCHANGED <<input, doc, ret, refret, out, refout, nscan, nfalse, panicked,
                 level, mark, writer, calls, seen>>

NextMulti == DoAllowMultple \/ DoScan

SpecMulti == InitMulti /\ [][NextMulti]_vars

-----------------------------------------------------------------------------
(* Values whose tokens are known one by one, with the member name each      *)
(* token goes by (specification SpecName).                                  *)
MaxNameDepth == 2

(* a token: its kind, whether it has no name, the name, and for a scalar    *)
(* the text of the literal                                                  *)
Tok(kind, text) == [kind |-> kind, noname |-> TRUE, name |-> <<>>, text |-> text]

Scalar(kind, text) == [text |-> text, toks |-> <<Tok(kind, text)>>]

(* the tokens of a value that is the member called name *)
Called(name, toks) ==
  <<[toks[1] EXCEPT !.noname = FALSE, !.name = name]>> \o Tail(toks)

(* the key "k\n", which cooks to k and a line feed *)
KeyCooked == <<ch.quote, 107, ch.backslash, ch.n, ch.quote, ch.colon>>

Scalars ==
  {Scalar(Number, <<ch.d1>>),
   Scalar(String, <<ch.quote, ch.x, ch.quote>>),
   Scalar(Null, <<ch.n, ch.u, ch.l, ch.l>>),
   Scalar(Bool, <<ch.t, ch.r, ch.u, ch.e>>),
   Scalar(Bool, <<ch.f, ch.a, ch.l, ch.s, ch.e>>)}

NamedOf(v) ==
  {[text |-> <<ch.lbrack, ch.d1, ch.comma>> \o v.text \o <<ch.rbrack>>,
    toks |-> <<Tok(Array, <<>>), Tok(Number, <<ch.d1>>)>> \o v.toks
               \o <<Tok(End, <<>>)>>],
   [text |-> <<ch.lbrace>> \o KeyA \o v.text \o <<ch.rbrace>>,
    toks |-> <<Tok(Object, <<>>)>> \o Called(<<ch.a>>, v.toks) \o <<Tok(End, <<>>)>>],
   [text |-> <<ch.lbrace>> \o KeyA \o <<ch.d1, ch.comma>> \o KeyCooked \o v.text
               \o <<ch.rbrace>>,
    toks |-> <<Tok(Object, <<>>)>> \o Called(<<ch.a>>, <<Tok(Number, <<ch.d1>>)>>)
               \o Called(<<107, ch.nl>>, v.toks) \o <<Tok(End, <<>>)>>]}

RECURSIVE NamedVals(_)
NamedVals(d) ==
  IF d = 0 THEN Scalars
  ELSE LET V == NamedVals(d - 1)
       IN V \cup {[text |-> <<ch.lbrack, ch.rbrack>>,
                   toks |-> <<Tok(Array, <<>>), Tok(End, <<>>)>>],
                  [text |-> <<ch.lbrace, ch.rbrace>>,
                   toks |-> <<Tok(Object, <<>>), Tok(End, <<>>)>>]}
            \cup UNION {NamedOf(v) : v \in V}

NamedDocs ==
  {[family |-> "named", pre |-> <<>>, text |-> v.text, post |-> <<>>, at |-> 1,
    toks |-> v.toks] : v \in NamedVals(MaxNameDepth)}

InitName ==
  \E d \in NamedDocs : \E rd \in Readers(Len(d.text)) : Start(d, rd)

SpecName == InitName /\ [][Next]_vars

-----------------------------------------------------------------------------
(* Sources with an irregular read (specification SpecIO).                   *)
Faults(n) ==
  {[kind |-> k, at |-> a] : k \in {"zero", "err", "errdata"}, a \in 0..n}

InitIO ==
  \E q \in Strs(Alphabet, MaxLen) \cup {Prefix(Doc1, i) : i \in 0..Len(Doc1)} :
    \E f \in Faults(Len(q)) : \E cuts \in {{}, 1..Len(q)} :
      Start(PlainDoc(q), NewReader(cuts, f, FALSE))

SpecIO == InitIO /\ [][Next]_vars

(* Sources that fail with an error of their own, with or without bytes in   *)
(* the failing read (specification SpecSrc).                                *)
SourceFaults(n) == {[kind |-> k, at |-> a] : k \in {"err", "errdata"}, a \in 0..n}

SourceInputs ==
  Strs({ch.lbrack, ch.rbrack, ch.d1, ch.comma}, MaxLen)
    \cup {Prefix(Doc1, i) : i \in 0..Len(Doc1)}
    \cup {Prefix(Doc2, i) : i \in 0..Len(Doc2)}

InitSrc ==
  \E q \in SourceInputs :
    \E f \in SourceFaults(Len(q)) :
      \E cuts \in {{}, 1..Len(q), {k \in 1..Len(q) : k % 2 = 0}} :
        Start(PlainDoc(q), NewReader(cuts, f, FALSE))

SpecSrc == InitSrc /\ [][Next]_vars

-----------------------------------------------------------------------------
(* The JSON grammar, as a recogniser that is independent of the scanner:    *)
(*   element = null | true | false | number | string | array | object      *)
(*   array   = '[' [ element { ',' element } ] ']'                          *)
(*   object  = '{' [ string ':' element { ',' string ':' element } ] '}'    *)
(* with whitespace (space, tab, CR, LF) allowed around every element and    *)
(* structural byte.  Positions are 1-based indices into the text q.  A      *)
(* recogniser answers "ok" with the index behind what it matched, "more"    *)
(* when the text ended where the grammar needs more bytes, and "bad" at a   *)
(* byte the grammar does not allow.                                         *)
G(st, i) == [st |-> st, i |-> i]

GWs == {32, 9, 13, 10}
GDigit == 48..57
GHex == (48..57) \cup (65..70) \cup (97..102)
GEscape == {34, 92, 47, 98, 102, 110, 114, 116}

RECURSIVE GSkip(_, _)
GSkip(q, i) == IF i <= Len(q) /\ q[i] \in GWs THEN GSkip(q, i + 1) ELSE i

RECURSIVE GDigits(_, _)
GDigits(q, i) == IF i <= Len(q) /\ q[i] \in GDigit THEN GDigits(q, i + 1) ELSE i

(* at least one digit from i on *)
GDigits1(q, i) ==
  IF i > Len(q) THEN G("more", i)
  ELSE IF q[i] \notin GDigit THEN G("bad", i)
  ELSE G("ok", GDigits(q, i))

GWord(q, i, w) ==
  IF \E k \in 1..Len(w) : i + k - 1 <= Len(q) /\ q[i + k - 1] # w[k]
       /\ \A j \in 1..(k - 1) : q[i + j - 1] = w[j]
  THEN G("bad", i)
  ELSE IF i + Len(w) - 1 > Len(q) THEN G("more", i)
  ELSE G("ok", i + Len(w))

RECURSIVE GString(_, _)
(* i is the index behind the opening quote *)
GString(q, i) ==
  IF i > Len(q) THEN G("more", i)
  ELSE IF q[i] = 34 THEN G("ok", i + 1)
  ELSE IF q[i] < 32 THEN G("bad", i)
  ELSE IF q[i] # 92 THEN GString(q, i + 1)
  ELSE IF i + 1 > Len(q) THEN G("more", i)
  ELSE IF q[i + 1] \in GEscape THEN GString(q, i + 2)
  ELSE IF q[i + 1] # 117 THEN G("bad", i + 1)
  ELSE IF \E k \in 2..5 : i + k <= Len(q) /\ q[i + k] \notin GHex
                            /\ \A j \in 2..(k - 1) : q[i + j] \in GHex
  THEN G("bad", i)
  ELSE IF i + 5 > Len(q) THEN G("more", i)
  ELSE GString(q, i + 6)

GExponent(q, i) ==
  IF i > Len(q) \/ q[i] \notin {101, 69} THEN G("ok", i)
  ELSE IF i + 1 > Len(q) THEN G("more", i)
  ELSE GDigits1(q, IF q[i + 1] \in {43, 45} THEN i + 2 ELSE i + 1)

GFraction(q, i) ==
  IF i > Len(q) \/ q[i] # 46 THEN GExponent(q, i)
  ELSE LET d == GDigits1(q, i + 1)
       IN IF d.st = "ok" THEN GExponent(q, d.i) ELSE d

GNumber(q, i) ==
  LET j == IF q[i] = 45 THEN i + 1 ELSE i
  IN IF j > Len(q) THEN G("more", j)
     ELSE IF q[j] = 48 THEN GFraction(q, j + 1)
     ELSE IF q[j] \in 49..57 THEN GFraction(q, GDigits(q, j))
     ELSE G("bad", j)

RECURSIVE GValue(_, _), GElements(_, _), GMembers(_, _)
GValue(q, i0) ==
  LET i == GSkip(q, i0)
  IN IF i > Len(q) THEN G("more", i)
     ELSE IF q[i] = 34 THEN GString(q, i + 1)
     ELSE IF q[i] = 45 \/ q[i] \in GDigit THEN GNumber(q, i)
     ELSE IF q[i] = 116 THEN GWord(q, i, <<116, 114, 117, 101>>)
     ELSE IF q[i] = 102 THEN GWord(q, i, <<102, 97, 108, 115, 101>>)
     ELSE IF q[i] = 110 THEN GWord(q, i, <<110, 117, 108, 108>>)
     ELSE IF q[i] = 91
       THEN LET j == GSkip(q, i + 1)
            IN IF j > Len(q) THEN G("more", j)
               ELSE IF q[j] = 93 THEN G("ok", j + 1)
               ELSE GElements(q, j)
     ELSE IF q[i] = 123
       THEN LET j == GSkip(q, i + 1)
            IN IF j > Len(q) THEN G("more", j)
               ELSE IF q[j] = 125 THEN G("ok", j + 1)
               ELSE GMembers(q, j)
     ELSE G("bad", i)

(* element { ',' element } ']' *)
GElements(q, i) ==
  LET v == GValue(q, i)
      j == GSkip(q, v.i)
  IN IF v.st # "ok" THEN v
     ELSE IF j > Len(q) THEN G("more", j)
     ELSE IF q[j] = 44 THEN GElements(q, j + 1)
     ELSE IF q[j] = 93 THEN G("ok", j + 1)
     ELSE G("bad", j)

(* string ':' element { ',' string ':' element } '}' *)
GMembers(q, i0) ==
  LET i == GSkip(q, i0)
      k == IF i <= Len(q) /\ q[i] = 34 THEN GString(q, i + 1) ELSE G("bad", i)
      c == GSkip(q, k.i)
      v == GValue(q, c + 1)
      j == GSkip(q, v.i)
  IN IF i > Len(q) THEN G("more", i)
     ELSE IF k.st # "ok" THEN k
     ELSE IF c > Len(q) THEN G("more", c)
     ELSE IF q[c] # 58 THEN G("bad", c)
     ELSE IF v.st # "ok" THEN v
     ELSE IF j > Len(q) THEN G("more", j)
     ELSE IF q[j] = 44 THEN GMembers(q, j + 1)
     ELSE IF q[j] = 125 THEN G("ok", j + 1)
     ELSE G("bad", j)

(* "ok": exactly one value, optionally surrounded by whitespace; "empty":   *)
(* nothing but whitespace; "more": a proper beginning of a document;        *)
(* "bad": anything else                                                     *)
Grammar(q) ==
  IF GSkip(q, 1) > Len(q) THEN "empty"
  ELSE LET v == GValue(q, 1)
       IN IF v.st # "ok" THEN v.st
          ELSE IF GSkip(q, v.i) > Len(q) THEN "ok"
          ELSE "bad"

-----------------------------------------------------------------------------
(* C1: once a Scan has recorded an error, every later Scan returns false    *)
(* and Err() keeps returning that same error.                               *)
StickyError ==
  [][(Err(s) # nil /\ last' = "Scan") => (~ret' /\ Err(s') = Err(s))]_vars

(* C2: for an input with a non-whitespace byte, when Scan first returns     *)
(* false Err() is nil if and only if the input is exactly one well-formed   *)
(* JSON value, optionally surrounded by whitespace.                         *)
AcceptsExactlyJSON ==
  (nfalse = 1 /\ Grammar(input) # "empty")
    => ((Err(s) = nil) <=> (Grammar(input) = "ok"))

AcceptsExactlyJSONWitness ==
  /\ nfalse = 1
  /\ input = Doc1
  /\ s.rd.cuts # {}
  /\ Err(s) = nil

(* C3: however the source splits the input into reads, every Scan returns   *)
(* what it returns when the input arrives in one read: the same return      *)
(* value, Kind(), Name(), Value() and error type and message.               *)
SameAsSingleRead ==
  /\ ret = refret
  /\ Kind(s) = Kind(ref)
  /\ out.isnil = refout.isnil
  /\ out.bytes = refout.bytes
  /\ out.panic = refout.panic
  /\ ErrorText(Err(s)) = ErrorText(Err(ref))

(* C5: when the input ends inside a token or container, the Scan that       *)
(* first returns false leaves Err() = io.ErrUnexpectedEOF.                  *)
UnexpectedEOF ==
  (nfalse = 1 /\ Grammar(input) = "more")
    => (Err(s) = ErrUnexpectedEOF /\ (last = "Scan" => ~ret))

UnexpectedEOFWitness ==
  /\ nfalse = 1
  /\ input = Prefix(Doc1, 5)
  /\ last = "Scan"
  /\ Err(s) = ErrUnexpectedEOF

(* C6: on an empty input the first Scan returns false and Err() is nil.     *)
EmptyInputIsCleanEOF ==
  (input = <<>> /\ nscan = 1) => (~ret /\ Err(s) = nil)

-----------------------------------------------------------------------------
(* C4: when Scan returns false and Err() is nil, the source has reported    *)
(* end-of-input, no array or object is open and no token is partially       *)
(* scanned; any other false return has a non-nil Err().                     *)
CleanEOFOnlyAtRoot ==
  (last = "Scan" /\ ~ret /\ Err(s) = nil)
    => (s.err = EOF /\ Len(s.states) = 1 /\ Grammar(input) \in {"ok", "empty"})

(* C7: a text of the number grammar scans as one Number token whose         *)
(* Value() is the text itself, byte for byte, whatever ends it.             *)
NumberLiteralKept ==
  (doc.family = "number" /\ nscan >= 1)
    => IF nscan = doc.at
       THEN /\ ret
            /\ Kind(s) = Number
            /\ last = "Value" => (~out.panic /\ ~out.isnil /\ out.bytes = doc.text)
       ELSE Kind(s) # Number

NumberLiteralKeptWitness ==
  /\ doc.family = "number"
  /\ doc.pre = MemberStart
  /\ doc.text = <<ch.minus, ch.d1, ch.d0, ch.dot, ch.d1, ch.E, ch.plus, ch.d0>>
  /\ s.rd.cuts # {}
  /\ last = "Value"
  /\ out.bytes = doc.text

(* C8: a 0 or -0 followed by a digit is a complete Number token, and the    *)
(* digit is the syntax error of the next Scan.                              *)
LeadingZeroEndsNumber ==
  doc.family = "zero"
    => /\ nscan = doc.at
            => /\ ret
               /\ Kind(s) = Number
               /\ last = "Value" => (~out.isnil /\ out.bytes = doc.text)
       /\ nscan = doc.at + 1
            => /\ ~ret
               /\ Err(s).type = "SyntaxError"
               /\ Err(s).b = Head(doc.post)

LeadingZeroEndsNumberWitness ==
  /\ doc.family = "zero"
  /\ doc.pre = <<ch.lbrack>>
  /\ doc.text = <<ch.d0>>
  /\ nscan = doc.at + 1
  /\ Err(s).expect = expectArrayCommaOrClose
  /\ Err(s).b = ch.d1

(* C9: for every string token and member name that the state machine        *)
(* accepted, Value() and Name() return normally.                            *)
CookingReturns ==
  (ret /\ last \in {"Value", "Name"}) => ~out.panic

(* C10: in a string value without escapes every byte that does not start    *)
(* a valid UTF-8 sequence is replaced by one U+FFFD and all other bytes     *)
(* are kept, in order.                                                      *)
WellFormed(p) ==
  \/ Len(p) = 2 /\ p[1] \in 194..223 /\ p[2] \in 128..191
  \/ /\ Len(p) = 3
     /\ p[3] \in 128..191
     /\ \/ p[1] = 224 /\ p[2] \in 160..191
        \/ p[1] \in (225..236) \cup {238, 239} /\ p[2] \in 128..191
        \/ p[1] = 237 /\ p[2] \in 128..159
  \/ /\ Len(p) = 4
     /\ p[3] \in 128..191
     /\ p[4] \in 128..191
     /\ \/ p[1] = 240 /\ p[2] \in 144..191
        \/ p[1] \in 241..243 /\ p[2] \in 128..191
        \/ p[1] = 244 /\ p[2] \in 128..143

RECURSIVE Replaced(_)
Replaced(q) ==
  IF q = <<>> THEN <<>>
  ELSE IF q[1] < 128 THEN <<q[1]>> \o Replaced(Tail(q))
  ELSE IF \E n \in 2..4 : n <= Len(q) /\ WellFormed(SubSeq(q, 1, n))
  THEN LET n == CHOOSE n \in 2..4 : n <= Len(q) /\ WellFormed(SubSeq(q, 1, n))
       IN SubSeq(q, 1, n) \o Replaced(SubSeq(q, n + 1, Len(q)))
  ELSE <<239, 191, 189>> \o Replaced(Tail(q))

NoEscape(q) == \A i \in 1..Len(q) : q[i] # ch.backslash

InvalidBytesReplaced ==
  (doc.family = "string" /\ doc.at = 1 /\ NoEscape(doc.text)
     /\ nscan = 1 /\ last = "Value")
    => (~out.panic /\ ~out.isnil /\ out.bytes = Replaced(doc.text))

-----------------------------------------------------------------------------
(* C11: cooking a high surrogate escape that is directly followed by a low  *)
(* surrogate escape yields the one combined code point; any other surrogate *)
(* escape yields one U+FFFD, and what follows it is decoded on its own.     *)
RECURSIVE CookedEscapes(_)
(* the text the escapes of q stand for; U+1D11E is F0 9D 84 9E in UTF-8 *)
CookedEscapes(q) ==
  LET six == SubSeq(q, 1, Min(6, Len(q)))
      rest(n) == CookedEscapes(SubSeq(q, n + 1, Len(q)))
  IN IF q = <<>> THEN <<>>
     ELSE IF six = HighEsc /\ Len(q) >= 12 /\ SubSeq(q, 7, 12) = LowEsc
     THEN <<240, 157, 132, 158>> \o rest(12)
     ELSE IF six = HighEsc \/ six = LowEsc THEN <<239, 191, 189>> \o rest(6)
     ELSE IF six = PlainEsc THEN <<65>> \o rest(6)
     ELSE IF q[1] = ch.backslash THEN <<10>> \o rest(2)
     ELSE <<q[1]>> \o rest(1)

SurrogatesCooked ==
  [][(doc.family = "escape" /\ last = "Scan" /\ ret /\ nscan = doc.at
        /\ last' = (IF doc.at = 1 THEN "Value" ELSE "Name"))
       => (~out'.panic /\ ~out'.isnil /\ out'.bytes = CookedEscapes(doc.text))]_vars

SurrogatesCookedWitness ==
  /\ doc.family = "escape"
  /\ doc.at = 1
  /\ doc.text = LowEsc \o HighEsc \o LowEsc
  /\ last = "Value"
  /\ out.bytes = <<239, 191, 189, 240, 157, 132, 158>>

-----------------------------------------------------------------------------
(* C12: for a string token without escapes and with only valid UTF-8,       *)
(* Value() is a view of the scanner's buffer at the token's region, not a   *)
(* new allocation, and its bytes are the input bytes of the string.         *)
ValidUTF8(q) == Replaced(q) = q

ZeroCopy ==
  (doc.family = "string" /\ doc.at = 1 /\ NoEscape(doc.text)
     /\ ValidUTF8(doc.text) /\ nscan = 1 /\ ret /\ last = "Value")
    => /\ ~out.panic
       /\ ~out.isnil
       /\ ~out.fresh
       /\ out.bytes = doc.text
       /\ out.bytes = ImgSlice(s.buf \o s.stale, s.data[valueData].pos,
                               s.data[valueData].end)

ZeroCopyWitness ==
  /\ doc.family = "string"
  /\ doc.at = 1
  /\ doc.text = <<ch.a, 195, 128, ch.a>>
  /\ s.rd.cuts # {}
  /\ last = "Value"
  /\ ~out.fresh
  /\ out.bytes = doc.text

-----------------------------------------------------------------------------
(* The token an ordinary Scan yields behind the container of a document,   *)
(* read off the bytes that follow it: nothing at the end of the input, the  *)
(* sibling behind a comma, or the End of the parent.                        *)
After(post) ==
  IF post = <<>> THEN [ret |-> FALSE, kind |-> -1, len |-> 0]
  ELSE IF post[1] = ch.comma THEN [ret |-> TRUE, kind |-> Number, len |-> 2]
  ELSE [ret |-> TRUE, kind |-> End, len |-> 1]

AtStartOfContainer ==
  /\ doc.family = "container"
  /\ ret
  /\ Kind(s) \in {Array, Object}
  /\ Consumed(s) = Len(doc.pre) + 1

BehindContainer ==
  /\ doc.family = "container"
  /\ nfalse = 0
  /\ Kind(s) = End
  /\ Consumed(s) = Len(doc.pre) + Len(doc.text)

NextIsSibling ==
  /\ ret' = After(doc.post).ret
  /\ Kind(s') = After(doc.post).kind
  /\ Err(s') = nil
  /\ ret' => Consumed(s') = Len(doc.pre) + Len(doc.text) + After(doc.post).len

(* C13: a scan bounded by the level recorded right after a container's      *)
(* start yields the container's direct children one per call, passing over  *)
(* what the caller left unfinished below them, and returns false without    *)
(* an error at the End of the container; a Scan after that yields the       *)
(* container's next sibling.                                                *)
ScanAtLevelYieldsChildren ==
  [][/\ (/\ doc.family = "container"
         /\ nfalse = 0
         /\ level > 0
         /\ mark = Len(doc.pre) + 1
         /\ Consumed(s) > Len(doc.pre)
         /\ Consumed(s) < Len(doc.pre) + Len(doc.text)
         /\ last' = "ScanAtLevel")
        => LET at == Consumed(s) - Len(doc.pre)
               todo == {j \in 1..Len(doc.kids) : doc.kids[j].end > at}
           IN IF todo = {}
              THEN /\ ~ret'
                   /\ Err(s') = nil
                   /\ Kind(s') = End
                   /\ Consumed(s') = Len(doc.pre) + Len(doc.text)
              ELSE LET kid == doc.kids[CHOOSE j \in todo : \A i \in todo : j <= i]
                   IN /\ ret'
                      /\ Kind(s') = kid.kind
                      /\ Consumed(s') = Len(doc.pre) + kid.end
     /\ (BehindContainer /\ last = "ScanAtLevel" /\ ~ret /\ last' = "Scan")
          => NextIsSibling]_vars

ScanAtLevelYieldsChildrenWitness ==
  /\ doc.text = LevelTest.text
  /\ doc.pre = <<>>
  /\ level = 2
  /\ mark = 1
  /\ nscan = 3
  /\ last = "ScanAtLevel"
  /\ ret
  /\ Kind(s) = Number
  /\ Consumed(s) = 7

(* C14: on an Array or Object start Skip consumes up to and including the   *)
(* matching End, leaving the nesting level one lower, and the next Scan     *)
(* yields the token behind the container.                                   *)
SkipClosesContainer ==
  [][/\ (Kind(s) \in {Array, Object} /\ ret /\ nfalse = 0 /\ last' = "Skip")
          => /\ NestingLevel(s') = NestingLevel(s) - 1
             /\ Kind(s') = End
             /\ ret'
     /\ (AtStartOfContainer /\ nfalse = 0 /\ last' = "Skip")
          => Consumed(s') = Len(doc.pre) + Len(doc.text)
     /\ (BehindContainer /\ last = "Skip" /\ last' = "Scan")
          => NextIsSibling]_vars

SkipClosesContainerWitness ==
  /\ doc.family = "container"
  /\ doc.pre = <<ch.lbrack>>
  /\ Len(doc.kids) = 2
  /\ doc.kids[2].kind = Object
  /\ s.rd.cuts # {}
  /\ level = 0
  /\ nscan = 3
  /\ last = "Scan"
  /\ Kind(s) = Number
  /\ Consumed(s) = Len(doc.pre) + Len(doc.text) + 2

(* C15: on any other token, and when there is no token, Skip leaves the     *)
(* scanner as it is: nothing is consumed and kind, name, value, nesting     *)
(* level and error stay.                                                    *)
SkipElseNothing ==
  [][(Kind(s) \notin {Array, Object} /\ last' = "Skip")
       => (s' = s /\ ret' = ret /\ nfalse' = nfalse)]_vars

SkipElseNothingWitness ==
  /\ doc.family = "container"
  /\ last = "Skip"
  /\ Kind(s) = String
  /\ NestingLevel(s) = 3
  /\ s.rd.cuts # {}

-----------------------------------------------------------------------------
(* C16: in multi-document mode a sequence of valid values separated by      *)
(* whitespace yields the tokens of the first value, then those of the       *)
(* next, and so on, and then clean end-of-input; {} {} yields Object, End,  *)
(* Object, End and then false with a nil Err().                             *)
MultipleValuesScanned ==
  (doc.family = "multi" /\ s.multi /\ nscan >= 1)
    => IF nscan <= Len(doc.toks)
       THEN ret /\ Kind(s) = doc.toks[nscan]
       ELSE ~ret /\ Err(s) = nil

MultipleValuesScannedWitness ==
  /\ doc.family = "multi"
  /\ s.multi
  /\ doc.text = <<ch.lbrace, ch.rbrace, ch.sp, ch.lbrace, ch.rbrace>>
  /\ doc.post = <<>>
  /\ nscan = 5
  /\ ~ret
  /\ Err(s) = nil

(* C17: without multi-document mode the first byte of a second top-level    *)
(* value is a syntax error of the Scan that follows the first value, and    *)
(* no Scan after the first value returns true.                              *)
OneValueOnly ==
  (doc.family = "multi" /\ ~s.multi /\ doc.b # 0 /\ nscan >= 1)
    => IF nscan <= doc.at
       THEN ret /\ Kind(s) = doc.toks[nscan]
       ELSE /\ ~ret
            /\ Err(s).type = "SyntaxError"
            /\ nscan = doc.at + 1
                 => (Err(s).b = doc.b /\ Err(s).expect = expectWhitespace)

OneValueOnlyWitness ==
  /\ doc.family = "multi"
  /\ ~s.multi
  /\ doc.text = <<ch.lbrace, ch.rbrace, ch.sp, ch.lbrace, ch.rbrace>>
  /\ nscan = 3
  /\ ~ret
  /\ Err(s).b = ch.lbrace

-----------------------------------------------------------------------------
(* C18: after a successful Scan, Name() is the cooked key when the token    *)
(* is the value of an object member and nil for every other token.          *)
NameOnlyOfMember ==
  [][/\ (doc.family = "named" /\ ret' /\ last' = "Scan")
          => Kind(s') = doc.toks[nscan'].kind
     /\ (doc.family = "named" /\ ret /\ last = "Scan" /\ last' = "Name")
          => /\ ~out'.panic
             /\ out'.isnil = doc.toks[nscan].noname
             /\ out'.bytes = doc.toks[nscan].name]_vars

NameOnlyOfMemberWitness ==
  /\ doc.family = "named"
  /\ s.rd.cuts # {}
  /\ nscan = 3
  /\ Len(doc.toks) >= 3
  /\ doc.toks[2].kind = Number
  /\ doc.toks[3].kind = Object
  /\ last = "Name"
  /\ out.bytes = <<107, ch.nl>>

(* C19: after a successful Scan of a Bool or Null token, Value() is the     *)
(* text of the literal: true, false or null.                                *)
LiteralHasValue ==
  (doc.family = "named" /\ ret /\ Kind(s) \in {Bool, Null} /\ last = "Value")
    => (~out.panic /\ ~out.isnil /\ out.bytes = doc.toks[nscan].text)

(* C20: after a Scan that returned false, Kind() is none of the seven       *)
(* kinds, and Name() and Value() return nil without failing.                *)
NoTokenAfterFalse ==
  (nscan >= 1 /\ ~ret)
    => /\ Kind(s) \notin {Null, Bool, String, Number, Array, Object, End}
       /\ last \in {"Name", "Value"} => (~out.panic /\ out.isnil)

-----------------------------------------------------------------------------
(* C21: a syntax error records the offending byte, the offset of that byte  *)
(* in the input and what the state expected, also when the byte arrives     *)
(* after buffer refills.  The scanner fed in one read has Pos counted from  *)
(* the start of the input (no refill moves its buffer), and it names the    *)
(* same state.                                                              *)
SyntaxErrorAtOffset ==
  (last = "Scan" /\ nfalse = 1 /\ ~ret /\ Err(s).type = "SyntaxError")
    => /\ Err(s).b = input[Consumed(s)]
       /\ Err(s).Pos = Consumed(s) - 1
       /\ Err(s).expect = Err(ref).expect

-----------------------------------------------------------------------------
(* C22: when a read of the source returns an error other than end-of-input, *)
(* the tokens that complete within the bytes delivered so far (those of     *)
(* that read included) are still returned; then Scan returns false, Err()   *)
(* is the error of the source, and the source is not read again.            *)

(* the source returns an error when it is read at offset fault.at *)
SourceFails ==
  LET f == s.rd.fault
  IN \/ f.kind = "err" /\ (f.at \in s.rd.cuts \cup {0, Len(input)})
     \/ f.kind = "errdata" /\ f.at < Len(input) /\ (f.at \in s.rd.cuts \cup {0})

(* the number of input bytes the source delivers in all *)
Delivered ==
  LET f == s.rd.fault
      later == {c \in s.rd.cuts : c > f.at}
  IN IF f.kind = "err" THEN f.at
     ELSE IF later = {} THEN Len(input)
     ELSE CHOOSE c \in later : \A d \in later : c <= d

(* the input bytes a scanner has looked at: a number is only complete when  *)
(* the byte behind it has been seen                                         *)
Examined(sc) == IF sc.kind = Number THEN Consumed(sc) + 1 ELSE Consumed(sc)

-----------------------------------------------------------------------------
(* C23: ScanToEnd returns true exactly when its Scan yields a token that is *)
(* not an End; when it returns false at an End, that End is consumed, the   *)
(* nesting level is one lower and Err() is nil; so a loop over ScanToEnd    *)
(* whose body consumes each child yields the direct children of a           *)
(* container and stops behind its End.                                      *)
ScanToEndStopsAtEnd ==
  [][last' = "ScanToEnd"
       => /\ ret' = (Kind(s') \in {Null, Bool, String, Number, Array, Object})
          /\ (~ret' /\ Kind(s') = End)
               => (NestingLevel(s') = NestingLevel(s) - 1 /\ Err(s') = nil)
          /\ (/\ doc.family = "container"
              /\ nfalse = 0
              /\ NestingLevel(s) = doc.at + 1
              /\ Consumed(s) > Len(doc.pre)
              /\ Consumed(s) < Len(doc.pre) + Len(doc.text))
               => LET at == Consumed(s) - Len(doc.pre)
                      todo == {j \in 1..Len(doc.kids) : doc.kids[j].end > at}
                  IN IF todo = {}
                     THEN /\ ~ret'
                          /\ Kind(s') = End
                          /\ Consumed(s') = Len(doc.pre) + Len(doc.text)
                     ELSE LET kid == doc.kids[CHOOSE j \in todo : \A i \in todo : j <= i]
                          IN /\ ret'
                             /\ Kind(s') = kid.kind
                             /\ Consumed(s') = Len(doc.pre) + kid.end]_vars

-----------------------------------------------------------------------------
(* C26: the depth of the parse stack is 1 plus the number of Array and      *)
(* Object tokens produced minus the number of End tokens produced, and is   *)
(* never below 1; an End is produced only while a container is open.        *)
(* Stated per call: the stack starts with depth 1, and every Scan and Skip  *)
(* changes the depth by the starts minus the Ends among the tokens it       *)
(* produces, each End coming at a depth above 1.                            *)
Opens(toks) == Cardinality({i \in 1..Len(toks) : toks[i] \in {Array, Object}})

Closes(toks) == Cardinality({i \in 1..Len(toks) : toks[i] = End})

DepthAfter(sc, toks) == Len(sc.states) + Opens(toks) - Closes(toks)

DepthCountsTokens ==
  /\ Len(s.states) = 1
  /\ [][last' \in {"Scan", "Skip"}
          => \A toks \in {IF last' = "Skip" THEN Skip(s).toks
                           ELSE IF ret' THEN <<Kind(s')>> ELSE <<>>} :
               /\ Len(s'.states) = DepthAfter(s, toks)
               /\ \A n \in 1..Len(toks) :
                    /\ DepthAfter(s, SubSeq(toks, 1, n)) >= 1
                    /\ toks[n] = End => DepthAfter(s, SubSeq(toks, 1, n - 1)) > 1]_vars

DepthCountsTokensWitness ==
  /\ input = Doc1
  /\ s.rd.cuts # {}
  /\ nscan = 2
  /\ last = "Skip"
  /\ Kind(s) = End
  /\ Len(s.states) = 2
  /\ Consumed(s) = 13

-----------------------------------------------------------------------------
(* C30: between two advances, a second call of Value() (or of Name())      *)
(* right after the first returns the same bytes as the first and does not   *)
(* fail.                                                                    *)
RepeatedAccessSameBytes ==
  [][(\/ last = "Value" /\ last' = "Value"
      \/ last = "Name" /\ last' = "Name")
       => /\ ~out'.panic
          /\ out'.isnil = out.isnil
          /\ out'.bytes = out.bytes]_vars

-----------------------------------------------------------------------------
(* C28: the byte that ends a number belongs to the next token: when the     *)
(* Number token is returned exactly the bytes up to the end of the literal  *)
(* are consumed and the cursor is at the byte behind it (or at the end of   *)
(* the buffer), and the next Scan starts with that byte: a closing bracket  *)
(* or brace is the End token, a comma leads to the next value, and at the   *)
(* end of the input there is no further token.                              *)
NumberEnd == Len(doc.pre) + Len(doc.text)

TerminatorStartsNextToken ==
  doc.family = "number"
    => /\ nscan = doc.at
            => /\ ret
               /\ Kind(s) = Number
               /\ Consumed(s) = NumberEnd
               /\ s.data[valueData].end = s.pos
               /\ IF doc.post = <<>> THEN s.pos = Len(s.buf)
                  ELSE s.pos < Len(s.buf) /\ s.buf[s.pos + 1] = Head(doc.post)
       /\ nscan = doc.at + 1
            => IF doc.post = <<>> \/ isWhiteSpace(Head(doc.post))
               THEN ~ret /\ Consumed(s) = Len(input)
               ELSE IF Head(doc.post) = ch.comma
               THEN ret /\ Kind(s) = Array /\ Consumed(s) = NumberEnd + 2
               ELSE ret /\ Kind(s) = End /\ Consumed(s) = NumberEnd + 1

(* [10] one byte per read: the End token after the number *)
TerminatorStartsNextTokenWitness ==
  /\ doc.family = "number"
  /\ doc.text = <<ch.d1, ch.d0>>
  /\ doc.post = <<ch.rbrack>>
  /\ s.rd.cuts = 1..4
  /\ nscan = 3
  /\ ret
  /\ Kind(s) = End
  /\ Consumed(s) = 4

-----------------------------------------------------------------------------
(* C29: while the cooker of a Value() or Name() call writes into the raw    *)
(* region itself, after every step of its loop the write cursor is at or    *)
(* before the read cursor, so every byte written lies on bytes already      *)
(* read; a byte that is no valid UTF-8 and whose 3-byte replacement would   *)
(* pass the read cursor makes the cooker leave the region first.            *)
RECURSIVE WritesBehindReads(_)
WritesBehindReads(k) ==
  IF k.panic \/ k.r >= k.len THEN TRUE
  ELSE \A k1 \in {CookStep(k)} :
         /\ (k1.same /\ ~k1.panic) => k1.w <= k1.r
         /\ (k.same /\ ~k1.panic /\ k1.w > k1.r) => ~k1.same
         /\ WritesBehindReads(k1)

Cooks(sc, dataIndex) ==
  /\ sc.data[dataIndex].pos >= 0
  /\ sc.data[dataIndex].end >= sc.data[dataIndex].pos
  /\ sc.data[dataIndex].end <= sc.cap
  /\ sc.data[dataIndex].cook

CookingInPlaceIsSafe ==
  [][/\ (last' = "Value" /\ Cooks(s, valueData))
          => WritesBehindReads(Cooker(s, s.data[valueData]))
     /\ (last' = "Name" /\ Cooks(s, nameData))
          => WritesBehindReads(Cooker(s, s.data[nameData]))]_vars

(* "\n\n\n" and a lone continuation byte: its U+FFFD is written in place *)
CookingInPlaceIsSafeWitness ==
  /\ doc.family = "string"
  /\ doc.text = <<ch.backslash, ch.n, ch.backslash, ch.n, ch.backslash, ch.n, 128>>
  /\ last = "Value"
  /\ ~out.fresh
  /\ out.bytes = <<10, 10, 10, 239, 191, 189>>

(* 'a' and a lone continuation byte: the cooker leaves the region *)
CookingLeavesRegionWitness ==
  /\ doc.family = "string"
  /\ doc.text = <<ch.a, 128>>
  /\ last = "Value"
  /\ out.fresh
  /\ out.bytes = <<ch.a, 239, 191, 189>>

-----------------------------------------------------------------------------
(* Tokens longer than the room that fill demands (specification SpecFill):  *)
(* a read ends inside a string or member name of about minRead bytes, so    *)
(* that the next fill finds the live regions just below, at and above the   *)
(* size from which it allocates a larger buffer.                            *)
MaxOver == 4

(* n letters, each different from its neighbours *)
Letters(n) == [i \in 1..n |-> ch.a + (i % 26)]

LongDocs ==
  {InDoc("long", <<ch.quote>>, Letters(minRead + 2 * MaxOver), <<ch.quote>>, 1),
   InDoc("long", <<ch.lbrace, ch.quote>>, Letters(minRead + 2 * MaxOver),
         <<ch.quote, ch.colon, ch.d1, ch.rbrace>>, 2),
   InDoc("long", <<ch.lbrace, ch.quote>> \o Letters(200) \o <<ch.quote, ch.colon, ch.quote>>,
         Letters(minRead), <<ch.quote, ch.rbrace>>, 2)}

(* a read that ends at c, alone, followed by a read of one byte, or after   *)
(* a first read of three bytes                                              *)
LongReaders ==
  UNION {{NewReader({c}, NoFault, FALSE),
          NewReader({c, c + 1}, NoFault, FALSE),
          NewReader({3, c}, NoFault, FALSE)} :
            c \in (minRead - MaxOver)..(minRead + MaxOver + 5)}

InitFill == \E d \in LongDocs : \E rd \in LongReaders : Start(d, rd)

SpecFill == InitFill /\ [][Next]_vars

(* C27: every fill that a Scan runs preserves the live name and value       *)
(* regions: a region that was present lies inside the new buffer and holds  *)
(* the same bytes, a closed region keeps its length and an open one ends at *)
(* the cursor, an absent region stays absent, the name region ends before   *)
(* the value region starts, the cursor is the total length of the regions,  *)
(* and the bytes just read start at the cursor, whether or not fill took a  *)
(* larger buffer.                                                           *)
RegionKept(sc, s1, i) ==
  IF sc.data[i].pos < 0 THEN s1.data[i].pos < 0
  ELSE /\ s1.data[i].pos >= 0
       /\ RegionEnd(s1, i) <= Len(s1.buf)
       /\ Slice(s1.buf, s1.data[i].pos, RegionEnd(s1, i))
            = Slice(sc.buf, sc.data[i].pos, RegionEnd(sc, i))
       /\ IF sc.data[i].end < 0
          THEN s1.data[i].end < 0 /\ RegionEnd(s1, i) = s1.pos
          ELSE s1.data[i].end - s1.data[i].pos = sc.data[i].end - sc.data[i].pos

Preserved(sc, s1) ==
  /\ RegionKept(sc, s1, nameData)
  /\ RegionKept(sc, s1, valueData)
  /\ (s1.data[nameData].pos >= 0 /\ s1.data[valueData].pos >= 0)
       => RegionEnd(s1, nameData) <= s1.data[valueData].pos
  /\ s1.pos = LiveBytes(sc, nameData) + LiveBytes(sc, valueData)
  /\ Len(s1.buf) = s1.pos + (s1.rd.off - sc.rd.off)
  /\ Len(s1.buf) <= s1.cap
  /\ Slice(s1.buf, s1.pos, Len(s1.buf)) = Slice(input, sc.rd.off, s1.rd.off)

RECURSIVE FillsPreserve(_, _)
(* Preserved at every fill of the Scan loop that starts in sc with state st *)
FillsPreserve(sc, st) ==
  IF sc.pos < Len(sc.buf)
  THEN \A r \in {ScanBuf(sc, st, Len(sc.buf) - sc.pos)} :
         r.done \/ FillsPreserve(r.s, r.st)
  ELSE sc.err = nil
         => \A s1 \in {fill(sc)} :
              /\ Preserved(sc, s1)
              /\ s1.pos < Len(s1.buf) => FillsPreserve(s1, st)

FillPreservesRegions ==
  [][last' = "Scan"
       => FillsPreserve([s EXCEPT !.kind = -1,
                                  !.data[nameData].pos = -1,
                                  !.data[valueData].pos = -1],
                        s.states[Len(s.states)])]_vars

(* a member with a name of 200 and a value of minRead bytes, whose fill     *)
(* inside the value took a larger buffer: the name is read back             *)
FillPreservesRegionsWitness ==
  /\ doc.family = "long"
  /\ doc.text = Letters(minRead)
  /\ s.cap = 2 * initCap + minRead
  /\ nscan = 2
  /\ ret
  /\ Kind(s) = String
  /\ last = "Name"
  /\ out.bytes = Letters(200)

-----------------------------------------------------------------------------
(* Sequences of Writer calls (specification SpecWrite).  calls is the log   *)
(* of the calls made so far; a call is its method and its argument, the     *)
(* argument as a sequence of numbers (empty where there is none).           *)
MaxCalls == 8

Call(fn, arg) == [fn |-> fn, arg |-> arg]

Hello == <<104, 101, 108, 108, 111>>

(* the scalar calls of writerTests with the text each one is to produce;    *)
(* the argument of Float is the sign (1 for minus), the place of the point  *)
(* and the digits: 0.123 * 10^1 for 1.23                                    *)
ScalarTests ==
  {<<Call("Int", <<-1>>), <<ch.minus, ch.d1>> >>,
   <<Call("Uint", <<1>>), <<ch.d1>> >>,
   <<Call("QuotedInt", <<-1>>), <<ch.quote, ch.minus, ch.d1, ch.quote>> >>,
   <<Call("QuotedUint", <<1>>), <<ch.quote, ch.d1, ch.quote>> >>,
   <<Call("Float", <<0, 1, 1, 2, 3>>), <<ch.d1, ch.dot, ch.d2, 51>> >>,
   <<Call("Bool", <<1>>), <<ch.t, ch.r, ch.u, ch.e>> >>,
   <<Call("String", Hello), <<ch.quote>> \o Hello \o <<ch.quote>> >>,
   <<Call("StringBytes", Hello), <<ch.quote>> \o Hello \o <<ch.quote>> >>}

Names == {<<ch.a>>, <<ch.b>>}

(* the call c made on the Writer wt *)
Apply(wt, c) ==
  CASE c.fn = "StartArray" -> WriterStartArray(wt)
    [] c.fn = "EndArray" -> WriterEndArray(wt)
    [] c.fn = "StartObject" -> WriterStartObject(wt)
    [] c.fn = "EndObject" -> WriterEndObject(wt)
    [] c.fn = "Name" -> WriterName(wt, c.arg)
    [] c.fn = "Int" -> WriterInt(wt, c.arg[1])
    [] c.fn = "Uint" -> WriterUint(wt, c.arg[1])
    [] c.fn = "QuotedInt" -> WriterQuotedInt(wt, c.arg[1])
    [] c.fn = "QuotedUint" -> WriterQuotedUint(wt, c.arg[1])
    [] c.fn = "Float" -> WriterFloat(wt, Decimal(c.arg[1] = 1, SubSeq(c.arg, 3, Len(c.arg)), c.arg[2]))
    [] c.fn = "Bool" -> WriterBool(wt, c.arg[1] = 1)
    [] c.fn = "String" -> WriterString(wt, c.arg)
    [] c.fn = "StringBytes" -> WriterStringBytes(wt, c.arg)

(* a member whose value is complete is an object waiting for a name again *)
ValueDone(st) ==
  IF st # <<>> /\ st[Len(st)] = "member" THEN [st EXCEPT ![Len(st)] = "object"] ELSE st

RECURSIVE Nest(_)
(* The containers that the calls cs leave open, outermost first: "array",   *)
(* "object" (a name comes next) or "member" (the value of a name comes      *)
(* next).                                                                   *)
Nest(cs) ==
  IF cs = <<>> THEN <<>>
  ELSE LET c == cs[Len(cs)]
           st == Nest(SubSeq(cs, 1, Len(cs) - 1))
       IN CASE c.fn = "StartArray" -> Append(st, "array")
            [] c.fn = "StartObject" -> Append(st, "object")
            [] c.fn = "Name" -> [st EXCEPT ![Len(st)] = "member"]
            [] c.fn \in {"EndArray", "EndObject"} -> ValueDone(SubSeq(st, 1, Len(st) - 1))
            [] OTHER -> ValueDone(st)

Innermost(cs) ==
  LET st == Nest(cs) IN IF st = <<>> THEN "top" ELSE st[Len(st)]

(* a call by the caller of the Writer that keeps the calls properly nested *)
Wrote(c) ==
  /\ Len(calls) < MaxCalls
  /\ writer' = Apply(writer, c)
  /\ calls' = Append(calls, c)
  /\ last' = c.fn
  /\ UNCHANGED <<input, doc, s, ref, ret, refret, out, refout, nscan, nfalse,
                 panicked, level, mark, seen>>

DoStartArray ==
  Innermost(calls) \in {"top", "array", "member"} /\ Wrote(Call("StartArray", <<>>))

DoEndArray == Innermost(calls) = "array" /\ Wrote(Call("EndArray", <<>>))

DoStartObject ==
  Innermost(calls) \in {"top", "array", "member"} /\ Wrote(Call("StartObject", <<>>))

DoEndObject == Innermost(calls) = "object" /\ Wrote(Call("EndObject", <<>>))

DoWriterName ==
  Innermost(calls) = "object" /\ \E name \in Names : Wrote(Call("Name", name))

(* the scalar call of the test at hand, as tt.fn in the tests *)
DoScalar ==
  Innermost(calls) \in {"top", "array", "member"} /\ Wrote(doc.tt[1])

(* one row of writerTests, on a bytes.Buffer or on a plain io.Writer *)
InitWrite ==
  /\ \E tt \in ScalarTests :
       ScannerStart([family |-> "calls", pre |-> <<>>, text |-> <<>>, post |-> <<>>,
                     at |-> 0, tt |-> tt], SingleRead)
  /\ \E isStringWriter \in BOOLEAN : writer = NewWriter(isStringWriter)
  /\ calls = <<>>
  /\ seen = <<>>

NextWrite ==
  DoStartArray \/ DoEndArray \/ DoStartObject \/ DoEndObject \/ DoWriterName \/ DoScalar

SpecWrite == InitWrite /\ [][NextWrite]_vars

(* what the calls have written so far, flushed or not *)
Emitted(wt) == wt.dst \o wt.buf

(* C25: for a properly nested sequence of Writer calls the text written is  *)
(* the texts of the calls in order with one ',' before exactly those calls  *)
(* that follow the end of a value inside a container and are not an End:    *)
(* none behind StartArray or StartObject, none between a Name and its       *)
(* value, none before EndArray or EndObject.  A value written twice in an   *)
(* array gives [v,v] and as members a and b gives {"a":v,"b":v}, for the    *)
(* scalar of the test, for [] and for {}.  When the outermost value is      *)
(* complete nothing is held back in the bufio.Writer.                       *)
EndsValue(c) == c.fn \notin {"StartArray", "StartObject", "Name"}

CommaBefore(cs, i) ==
  /\ i > 1
  /\ EndsValue(cs[i - 1])
  /\ cs[i].fn \notin {"EndArray", "EndObject"}
  /\ Nest(SubSeq(cs, 1, i - 1)) # <<>>

OwnText(c) ==
  CASE c.fn = "StartArray" -> <<ch.lbrack>>
    [] c.fn = "EndArray" -> <<ch.rbrack>>
    [] c.fn = "StartObject" -> <<ch.lbrace>>
    [] c.fn = "EndObject" -> <<ch.rbrace>>
    [] c.fn = "Name" -> <<ch.quote>> \o c.arg \o <<ch.quote, ch.colon>>
    [] OTHER -> (CHOOSE x \in ScalarTests : x[1] = c)[2]

RECURSIVE TextOf(_, _)
(* the text of the first i calls of cs *)
TextOf(cs, i) ==
  IF i = 0 THEN <<>>
  ELSE TextOf(cs, i - 1)
         \o (IF CommaBefore(cs, i) THEN <<ch.comma>> ELSE <<>>)
         \o OwnText(cs[i])

(* the values written twice: the calls of each and its text *)
Twice ==
  {<< <<doc.tt[1]>>, doc.tt[2] >>,
   << <<Call("StartArray", <<>>), Call("EndArray", <<>>)>>, <<ch.lbrack, ch.rbrack>> >>,
   << <<Call("StartObject", <<>>), Call("EndObject", <<>>)>>, <<ch.lbrace, ch.rbrace>> >>}

CommasBetweenSiblings ==
  /\ Emitted(writer) = TextOf(calls, Len(calls))
  /\ (calls # <<>> /\ Nest(calls) = <<>>) => writer.buf = <<>>
  /\ \A v \in Twice :
       /\ calls = <<Call("StartArray", <<>>)>> \o v[1] \o v[1] \o <<Call("EndArray", <<>>)>>
            => writer.dst = <<ch.lbrack>> \o v[2] \o <<ch.comma>> \o v[2] \o <<ch.rbrack>>
       /\ calls = <<Call("StartObject", <<>>), Call("Name", <<ch.a>>)>> \o v[1]
                    \o <<Call("Name", <<ch.b>>)>> \o v[1] \o <<Call("EndObject", <<>>)>>
            => writer.dst = <<ch.lbrace, ch.quote, ch.a, ch.quote, ch.colon>> \o v[2]
                              \o <<ch.comma, ch.quote, ch.b, ch.quote, ch.colon>> \o v[2]
                              \o <<ch.rbrace>>

(* {"a":[],"b":[]} written through a bufio.Writer *)
CommasBetweenSiblingsWitness ==
  /\ writer.bw
  /\ Len(calls) = 8
  /\ calls[3].fn = "StartArray"
  /\ calls[7].fn = "EndArray"
  /\ last = "EndObject"
  /\ writer.depth = 0
  /\ writer.dst = <<ch.lbrace, ch.quote, ch.a, ch.quote, ch.colon, ch.lbrack, ch.rbrack,
                    ch.comma, ch.quote, ch.b, ch.quote, ch.colon, ch.lbrack, ch.rbrack,
                    ch.rbrace>>

-----------------------------------------------------------------------------
(* Copying a document through the Writer (specification SpecTrip): a loop   *)
(* scans the document and makes the Writer call of each token; when Scan    *)
(* has returned false, what the Writer has written is scanned in turn.      *)
MaxTripDepth == 2

BoolValue(sc) == sc.boolValue

(* The token that the caller reads after a successful Scan: Kind(), Name(), *)
(* Value() as the text of a String and, through strconv.ParseFloat, as the  *)
(* float64 of a Number, BoolValue() of a Bool; s is the scanner after the   *)
(* accessors.                                                               *)
Token(sc) ==
  CHOOSE x \in
    {[s |-> v.s,
      tok |-> [kind |-> Kind(sc), noname |-> n.isnil, name |-> n.bytes,
               text |-> IF Kind(sc) = String THEN v.bytes ELSE <<>>,
               num |-> IF Kind(sc) = Number THEN ParseFloat(v.bytes)
                       ELSE Decimal(FALSE, <<>>, 0),
               bool |-> Kind(sc) = Bool /\ BoolValue(sc)]] :
       n \in {Name(sc)},
       v \in {IF Kind(sc) \in {String, Number} THEN Value(sc)
              ELSE Bytes(sc, TRUE, <<>>, FALSE, FALSE)}} : TRUE

RECURSIVE OpenKinds(_)
(* the kinds of the containers that the tokens toks leave open *)
OpenKinds(toks) ==
  IF toks = <<>> THEN <<>>
  ELSE LET k == toks[Len(toks)].kind
           st == OpenKinds(SubSeq(toks, 1, Len(toks) - 1))
       IN IF k \in {Array, Object} THEN Append(st, k)
          ELSE IF k = End THEN SubSeq(st, 1, Len(st) - 1)
          ELSE st

(* The Writer calls for the token tok that follows the tokens before: the   *)
(* Name of a member, then the call of its kind.  The Writer has no call     *)
(* that writes null.                                                        *)
CallsFor(tok, before) ==
  (IF tok.noname THEN <<>> ELSE <<Call("Name", tok.name)>>)
    \o CASE tok.kind = Array -> <<Call("StartArray", <<>>)>>
         [] tok.kind = Object -> <<Call("StartObject", <<>>)>>
         [] tok.kind = End ->
              LET st == OpenKinds(before)
              IN <<Call(IF st[Len(st)] = Array THEN "EndArray" ELSE "EndObject", <<>>)>>
         [] tok.kind = String -> <<Call("String", tok.text)>>
         [] tok.kind = Number ->
              <<Call("Float", <<IF tok.num.neg THEN 1 ELSE 0, tok.num.dp>> \o tok.num.digs)>>
         [] tok.kind = Bool -> <<Call("Bool", <<IF tok.bool THEN 1 ELSE 0>>)>>
         [] tok.kind = Null -> <<>>

RECURSIVE ApplyAll(_, _)
ApplyAll(wt, cs) == IF cs = <<>> THEN wt ELSE ApplyAll(Apply(wt, Head(cs)), Tail(cs))

(* one turn of the copy loop: Scan, and the Writer calls of the token *)
DoCopy ==
  /\ last \in {"NewScanner", "Copy"}
  /\ ~panicked
  /\ nfalse = 0
  /\ \E r \in {Scan(s)} :
       /\ ret' = r.ret
       /\ nfalse' = IF r.ret THEN 0 ELSE 1
       /\ IF r.ret
          THEN \E t \in {Token(r.s)} :
                 /\ s' = t.s
                 /\ seen' = Append(seen, t.tok)
                 /\ calls' = calls \o CallsFor(t.tok, seen)
                 /\ writer' = ApplyAll(writer, CallsFor(t.tok, seen))
          ELSE s' = r.s /\ UNCHANGED <<seen, calls, writer>>
  /\ nscan' = nscan + 1
  /\ last' = "Copy"
  /\ UNCHANGED <<input, doc, ref, refret, out, refout, panicked, level, mark>>

(* a new Scanner on what the Writer has written *)
DoReopen ==
  /\ last = "Copy"
  /\ nfalse = 1
  /\ Err(s) = nil
  /\ input' = Emitted(writer)
  /\ s' = NewScanner(SingleRead)
  /\ ret' = FALSE
  /\ nscan' = 0
  /\ nfalse' = 0
  /\ last' = "Reopen"
  /\ UNCHANGED <<doc, ref, refret, out, refout, panicked, level, mark, writer, calls, seen>>

DoRescan ==
  /\ last \in {"Reopen", "Rescan"}
  /\ nfalse = 0
  /\ \E r \in {Scan(s)} :
       /\ ret' = r.ret
       /\ nfalse' = IF r.ret THEN 0 ELSE 1
       /\ s' = IF r.ret THEN Token(r.s).s ELSE r.s
  /\ nscan' = nscan + 1
  /\ last' = "Rescan"
  /\ UNCHANGED <<input, doc, ref, refret, out, refout, panicked, level, mark, writer,
                 calls, seen>>

TripScalars ==
  {<<ch.d0>>, <<ch.minus, ch.d0>>, <<ch.d1>>, <<ch.d1, ch.d0>>,
   <<ch.d1, ch.dot, ch.d0>>, <<ch.d0, ch.dot, ch.d1>>,
   <<ch.minus, ch.d1, ch.dot, ch.d2>>, <<ch.d1, ch.e, ch.d2>>,
   <<ch.d1, ch.E, ch.minus, ch.d9>>, <<ch.d1, ch.d0, ch.e, ch.plus, ch.d9>>,
   <<ch.quote, ch.quote>>, <<ch.quote>> \o Hello \o <<ch.quote>>,
   <<ch.t, ch.r, ch.u, ch.e>>, <<ch.f, ch.a, ch.l, ch.s, ch.e>>,
   <<ch.n, ch.u, ch.l, ch.l>>}

(* the second value of the containers with two *)
TripSecond ==
  {<<ch.d1>>, <<ch.n, ch.u, ch.l, ch.l>>, <<ch.quote>> \o Hello \o <<ch.quote>>,
   <<ch.lbrack, ch.rbrack>>}

TripKeyA == <<ch.quote, ch.a, ch.quote, ch.colon>>

TripKeyB == <<ch.sp, ch.quote, ch.b, ch.quote, ch.sp, ch.colon, ch.nl>>

RECURSIVE TripValues(_)
(* valid documents nested d deep *)
TripValues(d) ==
  IF d = 0 THEN TripScalars
  ELSE LET V == TripValues(d - 1)
       IN V \cup {<<ch.lbrack, ch.rbrack>>, <<ch.lbrace, ch.rbrace>>}
            \cup {<<ch.lbrack>> \o v \o <<ch.rbrack>> : v \in V}
            \cup {<<ch.lbrack, ch.sp>> \o v \o <<ch.comma>> \o x \o <<ch.rbrack>> :
                    v \in V, x \in TripSecond}
            \cup {<<ch.lbrace>> \o TripKeyA \o v \o <<ch.rbrace>> : v \in V}
            \cup {<<ch.lbrace>> \o TripKeyA \o v \o <<ch.comma>> \o TripKeyB \o x
                    \o <<ch.rbrace, ch.nl>> : v \in V, x \in TripSecond}

InitTrip ==
  \E q \in TripValues(MaxTripDepth) :
    \E rd \in {SingleRead, NewReader(1..Len(q), NoFault, FALSE)} : Start(PlainDoc(q), rd)

NextTrip == DoCopy \/ DoReopen \/ DoRescan

SpecTrip == InitTrip /\ [][NextTrip]_vars

(* C24: for every valid document, the text that the Writer calls of its     *)
(* tokens produce scans to the same tokens: every Scan of that text returns *)
(* a token of the kind, name, string text, number value and bool value of   *)
(* the token of the document at the same place, and returns false without   *)
(* an error exactly behind the last of them.                                *)
RoundTrip ==
  [][last' = "Rescan"
       => \A r \in {Scan(s)} :
            IF r.ret
            THEN /\ nscan' <= Len(seen)
                 /\ Token(r.s).tok = seen[nscan']
            ELSE /\ nscan' = Len(seen) + 1
                 /\ Err(r.s) = nil]_vars

(* the same for the documents without a null *)
RoundTripWithoutNull ==
  [][(last' = "Rescan" /\ \A i \in 1..Len(seen) : seen[i].kind # Null)
       => \A r \in {Scan(s)} :
            IF r.ret
            THEN /\ nscan' <= Len(seen)
                 /\ Token(r.s).tok = seen[nscan']
            ELSE /\ nscan' = Len(seen) + 1
                 /\ Err(r.s) = nil]_vars

====
